---- MODULE Spec2Model ----
(***************************************************************************)
(* Litecord gateway session layer: websocket connections, resumable        *)
(* sessions with sequence-numbered event replay, user / guild fan-out.     *)
(*                                                                         *)
(* Modelled from src/litecord/gateway/connection.py, gateway/state.py,     *)
(* objects/user.py, objects.py and guild.py.  The server registry          *)
(* (get_state, remove_state, add_connection, remove_connection,            *)
(* gen_ssid, token_find), the websocket base class (send, close, the       *)
(* handling of StopConnection / InvalidateSession) and                     *)
(* PresenceManager.global_update are not part of the sources at hand and   *)
(* follow the written specification.                                       *)
(*                                                                         *)
(* Scheduling is single-threaded cooperative: one action is the code one   *)
(* task runs between two suspension points (a websocket send, a wait for   *)
(* a dispatch lock, a repository read).                                    *)
(***************************************************************************)
EXTENDS Integers, Sequences, FiniteSets, TLC

\* ------------------------------------------------------------ bounds
MaxSessions == 2        \* sessions ever created by IDENTIFY
MaxEvents == 1          \* HTTP message posts, client ops other than IDENTIFY and RESUME,
                        \* and heartbeat deadline expiries
MaxResumes == 1         \* RESUME ops received
MaxSeqIn == 1           \* largest small seq a client puts in a RESUME
WindowSlack == 1        \* the window specification starts 0..WindowSlack events past a full ring

\* ------------------------------------------------------------ program constants
RESUME_MAX_EVENTS == 60

\* ------------------------------------------------------------ universe
Conns == {"c1", "c2"}
Https == {"h1"}
Tasks == Conns \cup Https
Users == {"u1", "b1"}          \* u1: a user account; b1: a bot account
Tokens == {"t1", "tb", "bad"}  \* the token of u1, of b1, and one of nobody
Shards == {<<0, 1>>, <<1, 1>>, <<0, 0>>, <<0, 2>>}    \* [shard_id, shard_count]
\* STATUS_UPDATE payloads: {status, afk}
Statuses == {[status |-> "idle", afk |-> FALSE], [status |-> "idle", afk |-> TRUE]}
Guilds == {"g1", "none"}      \* the id of the one guild, and an id of no guild
GuildMembers == <<"u1">>      \* member_ids of the one guild, in iteration order

VARIABLES
    ws,           \* [Conns -> "new" | "open" | "closed"]   the websocket
    closeCode,    \* [Conns -> Int]   close code the server closed the socket with, 0 = none
    identified,   \* [Conns -> BOOLEAN]   Connection.identified
    cstate,       \* [Conns -> Nat]   Connection.state: a session object, 0 = None
    session_id,   \* [Conns -> Nat]   Connection.session_id, 0 = None
    lock,         \* [Conns -> "free" | task | "dead" | "lost"]   Connection.dispatch_lock and
                  \*    its holder; never released after a failed send: "dead" when the
                  \*    holder was a handler's own dispatch, "lost" when it was a fan-out
    frames,       \* [Conns -> Seq(frame)]   what the server transmitted on the socket
    rs,           \* [Conns -> record]   locals of resume_handler / invalidate
    pc,           \* [Tasks -> label]   where each task is suspended
    fo,           \* [Tasks -> record]   locals of a fan-out / dispatch in progress
    sess,         \* Seq(record)   every ConnectionState object; its index is its session_id
    registry,     \* SUBSET Nat   session ids the server's registry maps to their state
    connections,  \* [Users -> Seq(Conns)]   server's user_id -> connections
    viewers,      \* SUBSET Users   Guild._viewers
    presence,     \* [Users -> status]   the presence tracker's per-user status
    nEvents,      \* events started so far (bounded by MaxEvents)
    nResumes,     \* RESUME ops received so far (bounded by MaxResumes)
    resumed,      \* SUBSET Conns   live connections a RESUME op was received on
    timers,       \* [Conns -> SUBSET Nat]   armed hb_wait_task timers, each named by the
                  \*                         number of heartbeats received when it was armed
    beats,        \* [Conns -> Nat]   HEARTBEAT ops received on the connection
    \* --- the HTTP API over one guild with one text channel and one invite
    member_ids,   \* SUBSET Accounts   the guild's member_ids
    banned_ids,   \* SUBSET Accounts   the guild's ban list
    watchers,     \* SUBSET Accounts   Guild._viewers (mark_watcher / unmark_watcher)
    sock,         \* [Links -> "open" | "closed" | "gone"]   a user's gateway connection:
                  \*    closed = socket closed, still in the server's connection list;
                  \*    gone = removed from the list by its cleanup
    dispatch_lock,\* [Links -> "free" | "lost"]   Connection.dispatch_lock; lost = held
                  \*    for ever after a send that raised
    inbox,        \* [Links -> Seq(event)]   events delivered on the connection
    stuck,        \* Nat   HTTP handlers waiting for ever for a lost dispatch lock
    messages,     \* Seq([author, nonce])   GuildManager.messages
    replies,      \* Seq([req, by, nonce, status, code])   HTTP responses sent, in order
    pins,         \* Nat   number of pinned messages of the text channel
    pin_pc,       \* [PinReqs -> "idle" | "checked" | "done"]   h_add_pin requests
    uses,         \* Int   Invite.uses, -1 = infinite
    uses0,        \* Int   the uses the invite was created with
    accepts,      \* Nat   accept requests answered with the invite object
    db_users,     \* [Emails -> record]   dicexual db['users'] beside the stock users
    nOps,         \* HTTP requests started so far (bounded by MaxOps)
    \* --- the snowflake generator
    id_in_process,\* Nat   snowflake._id_in_process
    clock,        \* Nat   time.time() in whole seconds
    made,         \* record   the last id generated: [at, id, back] with back = snowflake_time(id)
    \* --- the generation of session ids
    sessions,     \* [SidDraws -> Idents \cup {"none"}]   server.sessions: who registered the id
    new_id,       \* [Idents -> SidDraws \cup {"none"}]   gen_sessid new_id, then self.session_id
    tries,        \* [Idents -> Nat]   gen_sessid tries
    id_pc,        \* [Idents -> "idle" | "gen" | "assigned" | "registered" | "closed"]
    id_close      \* [Idents -> Nat]   close code of the IDENTIFY, 0 if none

gvars == <<ws, closeCode, identified, cstate, session_id, lock, frames, rs, pc, fo,
           sess, registry, connections, viewers, presence, nEvents, nResumes, resumed,
           timers, beats>>

avars == <<member_ids, banned_ids, watchers, sock, dispatch_lock, inbox, stuck, messages,
           replies, pins, pin_pc, uses, uses0, accepts, db_users, nOps>>

fvars == <<id_in_process, clock, made>>

svars == <<sessions, new_id, tries, id_pc, id_close>>

vars == <<gvars, avars, fvars, svars>>

\* ------------------------------------------------------------ helpers
NoEvt == [t |-> "", d |-> ""]
NoFo == [evt |-> NoEvt, mode |-> "", members |-> <<>>, conns |-> <<>>,
         cur |-> "none", s |-> 0, ret |-> ""]
Frame(op, t, s, d) == [op |-> op, t |-> t, s |-> s, d |-> d]
NoPayload == Frame("none", "", 0, "")

NoRs == [tok |-> "", sid |-> 0, seq |-> 0, sent |-> 0, stage |-> "none",
         i |-> 0, evt |-> NoPayload, pres |-> <<>>, flag |-> FALSE, held |-> FALSE,
         f0 |-> 0]

\* server.token_find + server.get_user: the user a token belongs to
token_find(tok) ==
    CASE tok = "t1" -> "u1"
      [] tok = "tb" -> "b1"
      [] OTHER -> "none"

TokenOf(u) == IF u = "b1" THEN "tb" ELSE "t1"

\* User.bot of the accounts of this model
IsBot(u) == u = "b1"

\* guild_man.guild_count(user): u1 is in the one guild of the model, b1 in
\* 2501 guilds that no modelled user shares
guild_count(u) == IF u = "b1" THEN 2501 ELSE 1

\* chk_shard_amount 358-372: the number of the user's guilds that fall in the
\* shard of the connection; every guild of this model falls in shard 0
shard_guilds(u, shard) == IF shard[1] = 0 THEN guild_count(u) ELSE 0

\* The members of the guilds a presence change of u is dispatched to
PresenceAudience(u) ==
    IF \E i \in 1 .. Len(GuildMembers) : GuildMembers[i] = u THEN GuildMembers ELSE <<>>

\* Connection.check_shard: TRUE when the shard pair is let through
check_shard(shard) ==
    /\ ~(shard[2] < 1)
    /\ ~(shard[1] > shard[2])

\* server.atomic_markers: the sessions marked as coming from an atomic client;
\* here the second session that is created
atomic_markers == {2}

\* A server that treats no client as atomic
is_atomicNever(c) == FALSE

\* Connection.is_atomic: server.atomic_markers.get(session_id, False)
is_atomic(c) == session_id[c] \in atomic_markers

\* ConnectionState.__init__
NewState(tok, u) ==
    [token |-> tok, user |-> u, sent_seq |-> 0, events |-> <<>>]

\* ConnectionState.add on a deque(maxlen=RESUME_MAX_EVENTS)
StateAdd(events, payload) ==
    IF Len(events) >= RESUME_MAX_EVENTS
    THEN Append(Tail(events), payload)
    ELSE Append(events, payload)

\* ConnectionState.__getitem__: self.events[seq] is a position in the deque;
\* past the end it returns None (NoPayload)
StateGetItem(events, seq) ==
    IF seq < Len(events) THEN events[seq + 1] ELSE NoPayload

\* Connection._register_payload applied to the session the connection refers to
RegisterPayload(ss, sid, payload) ==
    IF payload.op # "DISPATCH" \/ payload.t \in {"READY", "RESUMED"}
    THEN ss
    ELSE [ss EXCEPT ![sid].events = StateAdd(@, payload)]

\* A dispatch that numbers its payload without advancing sent_seq
NextSeqKept(ss, sid) == ss[sid].sent_seq

\* Connection.dispatch, line 200: self.state.sent_seq += 1
NextSeq(ss, sid) == ss[sid].sent_seq + 1

\* server.remove_connection(session_id): the connection leaves the dispatcher
RemoveConnection(cn, sid) ==
    [u \in Users |-> SelectSeq(cn[u], LAMBDA x : session_id[x] # sid)]

\* server.add_connection(user_id, conn)
AddConnection(cn, u, c) == [cn EXCEPT ![u] = Append(@, c)]

\* server.remove_state(state): nothing to remove when state is None
RemoveState(reg, sid) == reg \ {sid}

\* PresenceManager.global_update: the status that is stored when `status` is given
GlobalStatus(cur, status) == IF status = "none" THEN "online" ELSE status

\* The values a step has computed so far for the variables that the
\* dispatch machinery goes on to change.
Base == [vw |-> viewers, lk |-> lock, ss |-> sess, cn |-> connections,
         idf |-> identified, reg |-> registry, st |-> cstate, sidc |-> session_id]

SetG(B, npc, nfo) ==
    /\ pc' = npc
    /\ fo' = nfo
    /\ viewers' = B.vw
    /\ lock' = B.lk
    /\ sess' = B.ss
    /\ connections' = B.cn
    /\ identified' = B.idf
    /\ registry' = B.reg

\* Guild.dispatch / BaseChannel.dispatch / User.dispatch / Connection.dispatch
\* run by one task up to its next suspension point: the wait for a held
\* dispatch lock, or the websocket send of the payload.
\*   mode "guild":   Guild.dispatch, a viewer without connection is unmarked
\*   mode "channel": BaseChannel.dispatch, no unmarking
\*   mode "direct":  self.dispatch of a handler (members is empty)
RECURSIVE Walk(_, _, _, _, _)
Walk(mode, members, conns, vw, B) ==
    IF conns # <<>>
    THEN LET c == Head(conns) IN
         IF B.lk[c] # "free"
         THEN [kind |-> "lockwait", cur |-> c, members |-> members,
               conns |-> Tail(conns), vw |-> vw]
         ELSE IF ~B.idf[c]
         THEN Walk(mode, members, Tail(conns), vw, B)
         ELSE [kind |-> "send", cur |-> c, members |-> members,
               conns |-> Tail(conns), vw |-> vw]
    ELSE IF members # <<>>
    THEN LET m == Head(members) IN
         IF m \notin vw
         THEN Walk(mode, Tail(members), <<>>, vw, B)
         ELSE IF B.cn[m] = <<>>
         THEN Walk(mode, Tail(members), <<>>,
                   IF mode = "guild" THEN vw \ {m} ELSE vw, B)
         ELSE Walk(mode, Tail(members), B.cn[m], vw, B)
    ELSE [kind |-> "done", cur |-> "none", members |-> <<>>, conns |-> <<>>, vw |-> vw]

\* What runs, without suspension, when the dispatch a task was in returns.
Finish(t, ret, B) ==
    CASE ret = "id_add" ->
            \* identify_handler 550-556: add_connection, identified = True,
            \* then make_guild_list awaits the guild iterator
            LET u == B.ss[B.st[t]].user IN
            SetG([B EXCEPT !.cn = AddConnection(B.cn, u, t),
                           !.reg = B.reg \cup {B.sidc[t]},
                           !.idf = [B.idf EXCEPT ![t] = TRUE]],
                 [pc EXCEPT ![t] = "id_guilds"], [fo EXCEPT ![t] = NoFo])
      [] ret = "cl_tok" ->
            \* cleanup 905: self.state.token = None
            SetG([B EXCEPT !.ss = [B.ss EXCEPT ![B.st[t]].token = "none"]],
                 [pc EXCEPT ![t] = "cleaned"], [fo EXCEPT ![t] = NoFo])
      [] OTHER ->
            SetG(B, [pc EXCEPT ![t] = ret], [fo EXCEPT ![t] = NoFo])

Go(t, evt, mode, members, conns, ret, B) ==
    LET w == Walk(mode, members, conns, B.vw, B)
        B1 == [B EXCEPT !.vw = w.vw]
        rec == [evt |-> evt, mode |-> mode, members |-> w.members, conns |-> w.conns,
                cur |-> w.cur, s |-> 0, ret |-> ret]
    IN
    CASE w.kind = "done" -> Finish(t, ret, B1)
      [] w.kind = "lockwait" ->
            SetG(B1, [pc EXCEPT ![t] = "fo_lock"], [fo EXCEPT ![t] = rec])
      [] w.kind = "send" ->
            \* Connection.dispatch 190-217: lock taken, sent_seq += 1, send awaited
            LET sid == B.st[w.cur]
                n == NextSeq(B.ss, sid)
            IN SetG([B1 EXCEPT !.lk = [B.lk EXCEPT ![w.cur] = t],
                               !.ss = [B.ss EXCEPT ![sid].sent_seq = n]],
                    [pc EXCEPT ![t] = "fo_send"],
                    [fo EXCEPT ![t] = [rec EXCEPT !.s = n]])

\* ------------------------------------------------------------ HTTP API: universe
\* HTTP requests started in one behaviour
MaxOps == 2
\* Gateway connections that close in one behaviour
MaxDrops == 1
\* Pinned messages of the channel when the behaviour starts
PinsAtStart == 49
\* Users named "n1" in the user store when the behaviour starts: they hold
\* the discriminators 1000 .. 1000 + StockUsers - 1
StockUsers == 7999
\* Ids generated in one behaviour, seconds the clock advances
MaxIds == 3
MaxDt == 5

\* h_add_pin, channels.py 496
PIN_LIMIT == 50
\* get_discrim, dicexual/server.py 184
DISCRIM_LIMIT == 8000
\* dicexual/snowflake.py 6
EPOCH == 1420081200

\* One guild "G": its owner and two more users, all three members
Accounts == {"ow", "ua", "ub"}
owner_id == "ow"
MemberOrder == <<"ow", "ua", "ub">>
\* Gateway connections: two of ua, one of ub
Links == {"a1", "a2", "b1"}
LinkOrder == <<"a1", "a2", "b1">>
LinkUser(l) == IF l = "b1" THEN "ub" ELSE "ua"
Channels == {"ch", "none"}
Contents == {"", "hi", "long"}
Nonces == {"a", "b"}
BanTargets == Accounts \cup {"ghost"}
InviteCodes == {"inv", "none"}
InviteUses == {-1, 1}
PinReqs == {"p1", "p2"}
Emails == {"e1", "e2"}
Usernames == {"n1", "n2"}
\* what random_digits(4) is taken to return
DiscrimDraws == {8998, 8999, 9000}
CounterStarts == {1, 2046, 4094}

NoUser == [username |-> "none", discriminator |-> 0]
NoId == [at |-> 0, counter |-> 0, id |-> 0, back |-> 0]

\* the guild right after its three members joined and connected, nothing
\* requested yet; n is the number of uses its invite was created with
ApiStart(n) ==
    /\ member_ids = Accounts
    /\ banned_ids = {}
    /\ watchers = {"ua", "ub"}
    /\ sock = [l \in Links |-> "open"]
    /\ dispatch_lock = [l \in Links |-> "free"]
    /\ inbox = [l \in Links |-> <<>>]
    /\ stuck = 0
    /\ messages = <<>>
    /\ replies = <<>>
    /\ pins = PinsAtStart
    /\ pin_pc = [p \in PinReqs |-> "idle"]
    /\ uses = n
    /\ uses0 = n
    /\ accepts = 0
    /\ db_users = [e \in Emails |-> NoUser]
    /\ nOps = 0

ApiIdle == ApiStart(-1)

\* snowflake.py 7: _id_in_process = 1
FlakeIdle ==
    /\ id_in_process = 1
    /\ clock = EPOCH
    /\ made = NoId

\* IDENTIFY handlers that generate a session id
Idents == {"i1", "i2", "i3"}
\* What random_sid() can return
SidDraws == {"s1", "s2"}
\* gateway.py 26
MAX_TRIES == 20

\* no session is registered and no IDENTIFY has been received
SsidIdle ==
    /\ sessions = [s \in SidDraws |-> "none"]
    /\ new_id = [i \in Idents |-> "none"]
    /\ tries = [i \in Idents |-> 0]
    /\ id_pc = [i \in Idents |-> "idle"]
    /\ id_close = [i \in Idents |-> 0]

\* ------------------------------------------------------------ initial state
GatewayInit ==
    /\ ws = [c \in Conns |-> "new"]
    /\ closeCode = [c \in Conns |-> 0]
    /\ identified = [c \in Conns |-> FALSE]
    /\ cstate = [c \in Conns |-> 0]
    /\ session_id = [c \in Conns |-> 0]
    /\ lock = [c \in Conns |-> "free"]
    /\ frames = [c \in Conns |-> <<>>]
    /\ rs = [c \in Conns |-> NoRs]
    /\ pc = [t \in Tasks |-> IF t \in Conns THEN "new" ELSE "idle"]
    /\ fo = [t \in Tasks |-> NoFo]
    /\ sess = <<>>
    /\ registry = {}
    /\ connections = [u \in Users |-> <<>>]
    /\ viewers = {}
    /\ presence = [u \in Users |-> "offline"]
    /\ nEvents = 0
    /\ nResumes = 0
    /\ resumed = {}
    /\ timers = [c \in Conns |-> {}]
    /\ beats = [c \in Conns |-> 0]

Init == GatewayInit /\ ApiIdle /\ FlakeIdle /\ SsidIdle

\* ------------------------------------------------------------ connection
\* Sockets are named in the order the server accepts them
Before(o, c) == o = "c1" /\ c = "c2"

\* Connection.run: HELLO is sent, the heartbeat deadline timer is started,
\* then the read loop starts
Connect(c) ==
    /\ ws[c] = "new"
    /\ UNCHANGED <<avars, fvars, svars>>
    /\ \A o \in Conns : Before(o, c) => ws[o] # "new"
    /\ ws' = [ws EXCEPT ![c] = "open"]
    /\ frames' = [frames EXCEPT ![c] = Append(@, Frame("HELLO", "", 0, ""))]
    /\ pc' = [pc EXCEPT ![c] = "idle"]
    /\ timers' = [timers EXCEPT ![c] = {beats[c]}]
    /\ UNCHANGED <<closeCode, identified, cstate, session_id, lock, rs, fo, sess,
                   registry, connections, viewers, presence, nEvents, nResumes, resumed,
                   beats>>

\* The peer (or the network) closes the socket
ClientClose(c) ==
    /\ ws[c] = "open"
    /\ UNCHANGED <<avars, fvars, svars>>
    /\ ws' = [ws EXCEPT ![c] = "closed"]
    /\ UNCHANGED <<closeCode, identified, cstate, session_id, lock, frames, rs, pc, fo,
                   sess, registry, connections, viewers, presence, nEvents, nResumes, resumed, timers, beats>>

\* ------------------------------------------------------------ dispatch
Payload(f) == Frame("DISPATCH", f.evt.t, f.s, f.evt.d)

\* Connection.dispatch 190: the awaited dispatch lock has been released
FoLock(t) ==
    /\ pc[t] = "fo_lock"
    /\ UNCHANGED <<avars, fvars, svars>>
    /\ lock[fo[t].cur] = "free"
    /\ Go(t, fo[t].evt, fo[t].mode, fo[t].members, <<fo[t].cur>> \o fo[t].conns,
          fo[t].ret, Base)
    /\ UNCHANGED <<ws, closeCode, cstate, session_id, frames, rs, presence,
                   nEvents, nResumes, resumed, timers, beats>>

\* Connection.dispatch 217-223: the send returned; the payload is registered in
\* the session the connection refers to now, the lock is released and the
\* caller (User.dispatch, Guild.dispatch or a handler) goes on
FoSendDone(t) ==
    /\ pc[t] = "fo_send"
    /\ UNCHANGED <<avars, fvars, svars>>
    /\ ws[fo[t].cur] = "open"
    /\ LET c == fo[t].cur
           B1 == [Base EXCEPT !.ss = RegisterPayload(sess, cstate[c], Payload(fo[t])),
                              !.lk = [lock EXCEPT ![c] = "free"]]
       IN /\ frames' = [frames EXCEPT ![c] = Append(@, Payload(fo[t]))]
          /\ Go(t, fo[t].evt, fo[t].mode, fo[t].members, fo[t].conns, fo[t].ret, B1)
    /\ UNCHANGED <<ws, closeCode, cstate, session_id, rs, presence, nEvents, nResumes, resumed, timers, beats>>

\* Connection.dispatch 217: the send raised (the socket is closed).  Nothing is
\* registered and the lock is never released; User.dispatch swallows the
\* exception and goes on, a handler's own dispatch ends the handler
FoSendFail(t) ==
    /\ pc[t] = "fo_send"
    /\ UNCHANGED <<avars, fvars, svars>>
    /\ ws[fo[t].cur] = "closed"
    /\ LET B1 == [Base EXCEPT !.lk = [lock EXCEPT ![fo[t].cur] =
                                         IF fo[t].mode = "direct" THEN "dead" ELSE "lost"]]
       IN IF fo[t].mode = "direct"
          THEN SetG(B1, [pc EXCEPT ![t] = "idle"], [fo EXCEPT ![t] = NoFo])
          ELSE Go(t, fo[t].evt, fo[t].mode, fo[t].members, fo[t].conns, fo[t].ret, B1)
    /\ UNCHANGED <<ws, closeCode, cstate, session_id, frames, rs, presence,
                   nEvents, nResumes, resumed, timers, beats>>

\* GuildManager.new_message: an HTTP handler posts a message to the channel of
\* the guild; MESSAGE_CREATE goes to the guild's viewers (BaseChannel.dispatch)
PostMessage(h) ==
    /\ pc[h] = "idle"
    /\ UNCHANGED <<avars, fvars, svars>>
    /\ nEvents < MaxEvents
    /\ nEvents' = nEvents + 1
    /\ Go(h, [t |-> "MESSAGE_CREATE", d |-> ""], "channel", GuildMembers, <<>>,
          "idle", Base)
    /\ UNCHANGED <<ws, closeCode, cstate, session_id, frames, rs, presence, nResumes, resumed, timers, beats>>

\* ------------------------------------------------------------ IDENTIFY
\* StopConnection(code): the websocket layer closes the socket with the code
Stop(c, code) ==
    /\ ws' = [ws EXCEPT ![c] = "closed"]
    /\ closeCode' = [closeCode EXCEPT ![c] = code]

\* identify_handler 479-516: the close code of the first failing check up to
\* the generation of the session id, 0 if none.  free: gen_ssid finds an
\* unused id
IdentifyReject(c, tok, shard, free) ==
    IF identified[c] THEN 4005
    ELSE IF token_find(tok) = "none" THEN 4004
    ELSE IF ~check_shard(shard) THEN 4011
    ELSE IF shard[2] > 1 /\ ~IsBot(token_find(tok)) THEN 4011
    ELSE IF ~free THEN 4009
    ELSE 0

\* identify_handler 479-548: checks, session id, ConnectionState, then
\* presence.global_update(self), which dispatches PRESENCE_UPDATE to the guild
RecvIdentify(c, tok, shard, free) ==
    /\ ws[c] = "open"
    /\ UNCHANGED <<avars, fvars, svars>>
    /\ pc[c] = "idle"
    /\ Len(sess) < MaxSessions
    /\ LET u == token_find(tok)
           sid == Len(sess) + 1
           st1 == [cstate EXCEPT ![c] = sid]
           sc1 == [session_id EXCEPT ![c] = sid]
       IN
       IF IdentifyReject(c, tok, shard, free) # 0
       THEN /\ Stop(c, IdentifyReject(c, tok, shard, free))
            /\ UNCHANGED <<identified, cstate, session_id, lock, frames, rs, pc, fo,
                           sess, registry, connections, viewers, presence,
                           nEvents, nResumes, resumed, timers, beats>>
       ELSE IF guild_count(u) > 2500 /\ IsBot(u) /\ ~(shard[2] > 1)
       THEN \* 518-522: self.session_id is set, then SHARDING_REQUIRED
            /\ Stop(c, 4011)
            /\ session_id' = sc1
            /\ UNCHANGED <<identified, cstate, lock, frames, rs, pc, fo,
                           sess, registry, connections, viewers, presence,
                           nEvents, nResumes, resumed, timers, beats>>
       ELSE IF shard_guilds(u, shard) > 2500
       THEN \* 536-543: the ConnectionState is created, then chk_shard_amount
            \* raises INVALID_SHARD
            /\ Stop(c, 4011)
            /\ session_id' = sc1
            /\ cstate' = st1
            /\ sess' = Append(sess, NewState(tok, u))
            /\ UNCHANGED <<identified, lock, frames, rs, pc, fo,
                           registry, connections, viewers, presence,
                           nEvents, nResumes, resumed, timers, beats>>
       ELSE LET status == GlobalStatus(presence[u], "none")
                B1 == [Base EXCEPT !.ss = Append(sess, NewState(tok, u)),
                                   !.st = st1, !.sidc = sc1]
            IN /\ cstate' = st1
               /\ session_id' = sc1
               /\ presence' = [presence EXCEPT ![u] = status]
               /\ Go(c, [t |-> "PRESENCE_UPDATE", d |-> status], "guild",
                     PresenceAudience(u), <<>>, "id_add", B1)
               /\ UNCHANGED <<ws, closeCode, frames, rs, nEvents, nResumes, resumed, timers, beats>>

\* ------------------------------------------------------------ RESUME
\* Connection._resume 660-670 up to its next suspension point
RECURSIVE Replay(_, _, _, _)
Replay(i, last, pres, ring) ==
    IF i > last
    THEN [kind |-> "end", i |-> i, pres |-> pres, evt |-> NoPayload]
    ELSE LET evt == StateGetItem(ring, i) IN
         IF evt = NoPayload
         THEN [kind |-> "fail", i |-> i, pres |-> pres, evt |-> NoPayload]
         ELSE IF evt.t = "PRESENCE_UPDATE"
         THEN Replay(i + 1, last, Append(pres, evt.d), ring)
         ELSE [kind |-> "send", i |-> i, pres |-> pres, evt |-> evt]

\* _resume with the dispatch lock held, from position r.i of the range
ReplayRun(c, r, B) ==
    LET w == Replay(r.i, r.sent, r.pres, B.ss[B.st[c]].events)
        r1 == [r EXCEPT !.i = w.i, !.pres = w.pres, !.evt = w.evt]
        held == [B EXCEPT !.lk = [B.lk EXCEPT ![c] = c]]
        freed == [B EXCEPT !.lk = [B.lk EXCEPT ![c] = "free"]]
    IN
    CASE w.kind = "send" ->
            /\ rs' = [rs EXCEPT ![c] = [r1 EXCEPT !.stage = "replay", !.held = TRUE]]
            /\ SetG(held, [pc EXCEPT ![c] = "rs_send"], fo)
      [] w.kind = "fail" ->
            \* evt is None: evt.get raises, caught at 671: invalidate(True)
            /\ rs' = [rs EXCEPT ![c] = [r1 EXCEPT !.stage = "replay", !.held = TRUE,
                                                  !.flag = TRUE]]
            /\ SetG(held, [pc EXCEPT ![c] = "inv_send"], fo)
      [] w.kind = "end" ->
            \* 675-686: lock released, PRESENCES_REPLACE through self.dispatch
            /\ rs' = [rs EXCEPT ![c] = [r1 EXCEPT !.stage = "replayed", !.held = FALSE]]
            /\ IF w.pres # <<>>
               THEN Go(c, [t |-> "PRESENCES_REPLACE", d |-> ""], "direct", <<>>, <<c>>,
                       "rs_tail", freed)
               ELSE SetG(freed, [pc EXCEPT ![c] = "rs_tail"], fo)

\* resume_handler 697-737
RecvResume(c, tok, sid, seq) ==
    /\ ws[c] = "open"
    /\ UNCHANGED <<avars, fvars, svars>>
    /\ pc[c] = "idle"
    /\ nResumes < MaxResumes
    /\ nResumes' = nResumes + 1
    /\ resumed' = resumed \cup {c}
    /\ LET r0 == [NoRs EXCEPT !.tok = tok, !.sid = sid, !.seq = seq,
                              !.f0 = Len(frames[c])]
           reject(stage) ==
               /\ rs' = [rs EXCEPT ![c] = [r0 EXCEPT !.stage = stage]]
               /\ SetG(Base, [pc EXCEPT ![c] = "inv_send"], fo)
               /\ cstate' = cstate
       IN
       IF sid \notin registry
       THEN reject("unknown")
       ELSE IF tok # sess[sid].token
       THEN reject("token")
       ELSE LET sent == sess[sid].sent_seq
                r1 == [r0 EXCEPT !.sent = sent]
                st1 == [cstate EXCEPT ![c] = sid]
                B1 == [Base EXCEPT !.st = st1]
            IN /\ cstate' = st1
               /\ IF seq > sent
                  THEN /\ rs' = [rs EXCEPT ![c] = [r1 EXCEPT !.stage = "future"]]
                       /\ SetG(B1, [pc EXCEPT ![c] = "inv_send"], fo)
                  ELSE IF sent + 1 - seq > RESUME_MAX_EVENTS
                  THEN /\ rs' = [rs EXCEPT ![c] = [r1 EXCEPT !.stage = "window"]]
                       /\ SetG(B1, [pc EXCEPT ![c] = "inv_send"], fo)
                  ELSE IF lock[c] # "free"
                  THEN /\ rs' = [rs EXCEPT ![c] = [r1 EXCEPT !.stage = "replay",
                                                            !.i = seq]]
                       /\ SetG(B1, [pc EXCEPT ![c] = "rs_lock"], fo)
                  ELSE ReplayRun(c, [r1 EXCEPT !.i = seq], B1)
    /\ UNCHANGED <<ws, closeCode, session_id, frames, presence, nEvents,
                   timers, beats>>

\* _resume 656: the awaited dispatch lock has been released
RsLock(c) ==
    /\ pc[c] = "rs_lock"
    /\ UNCHANGED <<avars, fvars, svars>>
    /\ lock[c] = "free"
    /\ ReplayRun(c, [rs[c] EXCEPT !.f0 = Len(frames[c])], Base)
    /\ UNCHANGED <<ws, closeCode, cstate, session_id, frames, presence,
                   nEvents, nResumes, resumed, timers, beats>>

\* _resume 670: the send of a replayed payload returned
RsSendDone(c) ==
    /\ pc[c] = "rs_send"
    /\ UNCHANGED <<avars, fvars, svars>>
    /\ ws[c] = "open"
    /\ frames' = [frames EXCEPT ![c] = Append(@, rs[c].evt)]
    /\ ReplayRun(c, [rs[c] EXCEPT !.i = @ + 1], Base)
    /\ UNCHANGED <<ws, closeCode, cstate, session_id, presence, nEvents, nResumes, resumed, timers, beats>>

\* _resume 670-675: the send raised; invalidate(True) raises on its own send,
\* the finally clause releases the lock and the handler ends
RsSendFail(c) ==
    /\ pc[c] = "rs_send"
    /\ UNCHANGED <<avars, fvars, svars>>
    /\ ws[c] = "closed"
    /\ rs' = [rs EXCEPT ![c] = NoRs]
    /\ SetG([Base EXCEPT !.lk = [lock EXCEPT ![c] = "free"]],
            [pc EXCEPT ![c] = "idle"], fo)
    /\ UNCHANGED <<ws, closeCode, cstate, session_id, frames, presence,
                   nEvents, nResumes, resumed, timers, beats>>

\* Connection.invalidate 637-647 after its send: INVALID_SESSION went out; a
\* non-resumable invalidation removes self.state from the registry; raising
\* InvalidateSession ends the handler (and leaves _resume through its finally)
InvSendDone(c) ==
    /\ pc[c] = "inv_send"
    /\ UNCHANGED <<avars, fvars, svars>>
    /\ ws[c] = "open"
    /\ frames' = [frames EXCEPT ![c] =
                     Append(@, Frame("INVALID_SESSION", "", 0,
                                     IF rs[c].flag THEN "true" ELSE "false"))]
    /\ rs' = [rs EXCEPT ![c] = NoRs]
    /\ SetG([Base EXCEPT
                !.reg = IF ~rs[c].flag /\ cstate[c] # 0
                        THEN RemoveState(registry, cstate[c]) ELSE registry,
                !.lk = IF rs[c].held THEN [lock EXCEPT ![c] = "free"] ELSE lock],
            [pc EXCEPT ![c] = "idle"], fo)
    /\ UNCHANGED <<ws, closeCode, cstate, session_id, presence, nEvents, nResumes, resumed, timers, beats>>

\* Connection.invalidate 637: the send of INVALID_SESSION raised
InvSendFail(c) ==
    /\ pc[c] = "inv_send"
    /\ UNCHANGED <<avars, fvars, svars>>
    /\ ws[c] = "closed"
    /\ rs' = [rs EXCEPT ![c] = NoRs]
    /\ SetG([Base EXCEPT !.lk = IF rs[c].held THEN [lock EXCEPT ![c] = "free"]
                                 ELSE lock],
            [pc EXCEPT ![c] = "idle"], fo)
    /\ UNCHANGED <<ws, closeCode, cstate, session_id, frames, presence,
                   nEvents, nResumes, resumed, timers, beats>>

\* ------------------------------------------------------------ handler continuations
\* A handler resumes after an await that does not involve the dispatch lock:
\*   id_guilds   identify_handler 556, make_guild_list 328-337: every guild of
\*               the user gets the user as viewer unless the client is atomic
\*   id_ready    identify_handler 560-570: settings read, READY dispatched
\*   rs_tail     resume_handler 739-748: add_connection, identified = True,
\*               presence.global_update(self)
\*   rs_resumed  resume_handler 749: RESUMED dispatched
Continue(c) ==
    /\ pc[c] \in {"id_guilds", "id_ready", "rs_tail", "rs_resumed"}
    /\ UNCHANGED <<avars, fvars, svars>>
    /\ LET u == sess[cstate[c]].user IN
       CASE pc[c] = "id_guilds" ->
               /\ SetG([Base EXCEPT !.vw = IF is_atomic(c) THEN viewers
                                            ELSE viewers \cup {u}],
                       [pc EXCEPT ![c] = "id_ready"], fo)
               /\ presence' = presence
         [] pc[c] = "id_ready" ->
               /\ Go(c, [t |-> "READY", d |-> ""], "direct", <<>>, <<c>>, "idle", Base)
               /\ presence' = presence
         [] pc[c] = "rs_tail" ->
               /\ presence' = [presence EXCEPT ![u] = GlobalStatus(@, "none")]
               /\ Go(c, [t |-> "PRESENCE_UPDATE", d |-> GlobalStatus(presence[u], "none")],
                     "guild", GuildMembers, <<>>, "rs_resumed",
                     [Base EXCEPT !.cn = AddConnection(connections, u, c),
                                  !.idf = [identified EXCEPT ![c] = TRUE]])
         [] pc[c] = "rs_resumed" ->
               /\ Go(c, [t |-> "RESUMED", d |-> ""], "direct", <<>>, <<c>>, "idle", Base)
               /\ presence' = presence
    /\ UNCHANGED <<ws, closeCode, cstate, session_id, frames, rs, nEvents, nResumes, resumed, timers, beats>>

\* ------------------------------------------------------------ HEARTBEAT
\* What a HEARTBEAT carries in d: a sequence number or null
HbData == {"seq", "null"}

\* A handler that arms the new timer without cancelling the pending one
RearmKept(armed, n) == armed \cup {n}

\* heartbeat_handler 254-258: the pending timer is cancelled first; the rearmed
\* timer is the only one left
Rearm(armed, n) == {n}

\* An error raised by a handler ends the read loop: the socket is closed with
\* code 4000 (the run loop of gateway.py, 814-818)
HandlerError(c) == Stop(c, 4000)

\* heartbeat_handler 254-259.  The timer is cancelled, then
\* self.state.recv_seq = int(data) raises when the connection has no state
\* (before IDENTIFY) or d is null, and neither the new timer nor the
\* HEARTBEAT_ACK follow; the error ends the connection with close code 4000
Heartbeat(c, d) ==
    /\ ws[c] = "open"
    /\ UNCHANGED <<avars, fvars, svars>>
    /\ pc[c] = "idle"
    /\ nEvents < MaxEvents
    /\ nEvents' = nEvents + 1
    /\ beats' = [beats EXCEPT ![c] = @ + 1]
    /\ IF cstate[c] = 0 \/ d = "null"
       THEN /\ timers' = [timers EXCEPT ![c] = {}]
            /\ HandlerError(c)
            /\ frames' = frames
       ELSE /\ timers' = [timers EXCEPT ![c] = Rearm(@, beats[c] + 1)]
            /\ frames' = [frames EXCEPT ![c] = Append(@, Frame("HEARTBEAT_ACK", "", 0, ""))]
            /\ UNCHANGED <<ws, closeCode>>
    /\ UNCHANGED <<identified, cstate, session_id, lock, rs, pc, fo, sess, registry,
                   connections, viewers, presence, nResumes, resumed>>

\* hb_wait_task 233-236: the sleep of an armed timer is over, the socket is
\* closed with CloseCodes.UNKNOWN_ERROR
HbExpire(c) ==
    /\ ws[c] = "open"
    /\ UNCHANGED <<avars, fvars, svars>>
    /\ timers[c] # {}
    /\ nEvents < MaxEvents
    /\ nEvents' = nEvents + 1
    /\ \E t \in timers[c] : timers' = [timers EXCEPT ![c] = @ \ {t}]
    /\ Stop(c, 4000)
    /\ UNCHANGED <<identified, cstate, session_id, lock, frames, rs, pc, fo, sess,
                   registry, connections, viewers, presence, nResumes, resumed,
                   beats>>

\* ------------------------------------------------------------ STATUS_UPDATE
\* A handler that takes every client for afk
HandlerStatusAfk(data) == "afk"

\* status_handler 761-774: the status handed to the presence manager
HandlerStatus(data) == IF data.afk THEN "afk" ELSE data.status

\* status_handler 758-780
StatusUpdate(c, status) ==
    /\ ws[c] = "open"
    /\ UNCHANGED <<avars, fvars, svars>>
    /\ pc[c] = "idle"
    /\ nEvents < MaxEvents
    /\ nEvents' = nEvents + 1
    /\ IF ~identified[c]
       THEN /\ Stop(c, 4003)
            /\ UNCHANGED <<identified, lock, pc, fo, sess, registry, connections,
                           viewers, presence>>
       ELSE LET u == sess[cstate[c]].user IN
            /\ presence' = [presence EXCEPT ![u] = GlobalStatus(@, HandlerStatus(status))]
            /\ Go(c, [t |-> "PRESENCE_UPDATE",
                      d |-> GlobalStatus(presence[u], HandlerStatus(status))],
                  "guild", GuildMembers, <<>>, "idle", Base)
            /\ UNCHANGED <<ws, closeCode>>
    /\ UNCHANGED <<cstate, session_id, frames, rs, nResumes, resumed, timers, beats>>

\* ------------------------------------------------------------ other ops
\* req_guild_handler 578-623.  For a guild the user is a member of the handler
\* reads the undefined names `qyery` (empty query) or `chunk` (at most 1000
\* members) and raises
ReqGuild(c, g) ==
    /\ ws[c] = "open"
    /\ UNCHANGED <<avars, fvars, svars>>
    /\ pc[c] = "idle"
    /\ nEvents < MaxEvents
    /\ nEvents' = nEvents + 1
    /\ IF ~identified[c]
       THEN Stop(c, 4003)
       ELSE IF g = "none" \/ ~(\E i \in 1 .. Len(GuildMembers) :
                                  GuildMembers[i] = sess[cstate[c]].user)
       THEN UNCHANGED <<ws, closeCode>>
       ELSE HandlerError(c)
    /\ UNCHANGED <<identified, cstate, session_id, lock, frames, rs, pc, fo, sess,
                   registry, connections, viewers, presence, nResumes, resumed,
                   timers, beats>>

\* guild_sync_handler 790-813 for a list of one guild id
GuildSync(c, g) ==
    /\ ws[c] = "open"
    /\ UNCHANGED <<avars, fvars, svars>>
    /\ pc[c] = "idle"
    /\ nEvents < MaxEvents
    /\ nEvents' = nEvents + 1
    /\ IF ~identified[c]
       THEN /\ Stop(c, 4003)
            /\ UNCHANGED <<identified, lock, pc, fo, sess, registry, connections, viewers>>
       ELSE LET u == sess[cstate[c]].user IN
            IF g = "none" \/ ~(\E i \in 1 .. Len(GuildMembers) : GuildMembers[i] = u)
            THEN UNCHANGED <<ws, closeCode, identified, lock, pc, fo, sess, registry,
                             connections, viewers>>
            ELSE /\ Go(c, [t |-> "GUILD_SYNC", d |-> ""], "direct", <<>>, <<c>>, "idle",
                       [Base EXCEPT !.vw = IF is_atomic(c) THEN viewers \cup {u}
                                             ELSE viewers])
                 /\ UNCHANGED <<ws, closeCode>>
    /\ UNCHANGED <<cstate, session_id, frames, rs, presence, nResumes, resumed,
                   timers, beats>>

\* v_state_update_handler 816-844 for a payload without guild_id: it returns
VStateUpdate(c) ==
    /\ ws[c] = "open"
    /\ UNCHANGED <<avars, fvars, svars>>
    /\ pc[c] = "idle"
    /\ nEvents < MaxEvents
    /\ nEvents' = nEvents + 1
    /\ UNCHANGED <<ws, closeCode, identified, cstate, session_id, lock, frames, rs, pc,
                   fo, sess, registry, connections, viewers, presence, nResumes,
                   resumed, timers, beats>>

\* v_ping_handler 847-849: the payload is logged
VPing(c) ==
    /\ ws[c] = "open"
    /\ UNCHANGED <<avars, fvars, svars>>
    /\ pc[c] = "idle"
    /\ nEvents < MaxEvents
    /\ nEvents' = nEvents + 1
    /\ UNCHANGED <<ws, closeCode, identified, cstate, session_id, lock, frames, rs, pc,
                   fo, sess, registry, connections, viewers, presence, nResumes,
                   resumed, timers, beats>>

\* ------------------------------------------------------------ cleanup
\* A cleanup that takes the user offline whatever connections remain
NoConnsLeftAlways(cn, u) == TRUE

\* cleanup 900-902: amount_conns < 1
NoConnsLeft(cn, u) == Len(cn[u]) < 1

\* Connection.cleanup 881-905, run when the read loop has ended
Cleanup(c) ==
    /\ ws[c] = "closed"
    /\ UNCHANGED <<avars, fvars, svars>>
    /\ pc[c] = "idle"
    /\ LET idf1 == [identified EXCEPT ![c] = FALSE] IN
       IF cstate[c] = 0
       THEN /\ SetG([Base EXCEPT !.idf = idf1], [pc EXCEPT ![c] = "cleaned"], fo)
            /\ presence' = presence
       ELSE LET u == sess[cstate[c]].user
                cn1 == RemoveConnection(connections, session_id[c])
                B1 == [Base EXCEPT !.idf = idf1, !.cn = cn1]
            IN IF NoConnsLeft(cn1, u)
               THEN /\ presence' = [presence EXCEPT ![u] = "offline"]
                    /\ Go(c, [t |-> "PRESENCE_UPDATE", d |-> "offline"], "guild",
                          PresenceAudience(u), <<>>, "cl_tok", B1)
               ELSE /\ presence' = presence
                    /\ Finish(c, "cl_tok", B1)
    /\ UNCHANGED <<ws, closeCode, cstate, session_id, frames, rs, nEvents, nResumes, resumed, timers, beats>>

\* cleanup 889-902: the call reaches presence.global_update(self, offline):
\* the connection has a state and, with the connection of its session id
\* removed, the user has no connection left
UpdatesOffline(c) ==
    /\ cstate[c] # 0
    /\ NoConnsLeft(RemoveConnection(connections, session_id[c]), sess[cstate[c]].user)

\* Connection.cleanup 881-905 called once more on a connection that has been
\* cleaned up (the server's connection handler awaits conn.cleanup() when
\* run() has returned, whatever run() did before): the body has no test that
\* ends a second call early, self.state is still set
CleanupAgain(c) ==
    /\ ws[c] = "closed"
    /\ UNCHANGED <<avars, fvars, svars>>
    /\ pc[c] = "cleaned"
    /\ LET idf1 == [identified EXCEPT ![c] = FALSE] IN
       IF cstate[c] = 0
       THEN /\ SetG([Base EXCEPT !.idf = idf1], pc, fo)
            /\ presence' = presence
       ELSE LET u == sess[cstate[c]].user
                cn1 == RemoveConnection(connections, session_id[c])
                B1 == [Base EXCEPT !.idf = idf1, !.cn = cn1]
            IN IF UpdatesOffline(c)
               THEN /\ presence' = [presence EXCEPT ![u] = "offline"]
                    /\ Go(c, [t |-> "PRESENCE_UPDATE", d |-> "offline"], "guild",
                          PresenceAudience(u), <<>>, "cl_tok", B1)
               ELSE /\ presence' = presence
                    /\ Finish(c, "cl_tok", B1)
    /\ UNCHANGED <<ws, closeCode, cstate, session_id, frames, rs, nEvents, nResumes, resumed, timers, beats>>

\* The connection task has ended: nothing is transmitted on this socket any
\* more and what was observed on it is dropped with it
Reap(c) ==
    /\ pc[c] = "cleaned"
    /\ UNCHANGED <<avars, fvars, svars>>
    /\ pc' = [pc EXCEPT ![c] = "dead"]
    /\ frames' = [frames EXCEPT ![c] = <<>>]
    /\ closeCode' = [closeCode EXCEPT ![c] = 0]
    /\ resumed' = resumed \ {c}
    /\ timers' = [timers EXCEPT ![c] = {}]
    /\ beats' = [beats EXCEPT ![c] = 0]
    /\ UNCHANGED <<ws, identified, cstate, session_id, lock, rs, fo, sess, registry,
                   connections, viewers, presence, nEvents, nResumes>>

\* ------------------------------------------------------------ specification
SeqInputs(sid) ==
    (0 .. MaxSeqIn) \cup
    (IF sid \in DOMAIN sess
     THEN {n \in {sess[sid].sent_seq - RESUME_MAX_EVENTS - 1,
                  sess[sid].sent_seq - RESUME_MAX_EVENTS,
                  sess[sid].sent_seq} : n >= 0}
     ELSE {})

Next ==
    \/ \E c \in Conns : Connect(c)
    \/ \E c \in Conns : ClientClose(c)
    \/ \E c \in Conns, tok \in Tokens, shard \in Shards, free \in BOOLEAN :
          RecvIdentify(c, tok, shard, free)
    \/ \E c \in Conns, tok \in Tokens, sid \in 1 .. MaxSessions :
          \E seq \in SeqInputs(sid) : RecvResume(c, tok, sid, seq)
    \/ \E c \in Conns : RsLock(c)
    \/ \E c \in Conns : RsSendDone(c)
    \/ \E c \in Conns : RsSendFail(c)
    \/ \E c \in Conns : InvSendDone(c)
    \/ \E c \in Conns : InvSendFail(c)
    \/ \E c \in Conns : Continue(c)
    \/ \E c \in Conns, d \in HbData : Heartbeat(c, d)
    \/ \E c \in Conns : HbExpire(c)
    \/ \E c \in Conns, status \in Statuses : StatusUpdate(c, status)
    \/ \E c \in Conns, g \in Guilds : ReqGuild(c, g)
    \/ \E c \in Conns, g \in Guilds : GuildSync(c, g)
    \/ \E c \in Conns : VStateUpdate(c)
    \/ \E c \in Conns : VPing(c)
    \/ \E c \in Conns : Cleanup(c)
    \/ \E c \in Conns : Reap(c)
    \/ \E h \in Https : PostMessage(h)
    \/ \E t \in Tasks : FoLock(t)
    \/ \E t \in Tasks : FoSendDone(t)
    \/ \E t \in Tasks : FoSendFail(t)

Spec == Init /\ [][Next]_vars

\* ------------------------------------------------------------ cleanup called twice
\* Connections that identify, receive messages, close and are cleaned up,
\* with the cleanup of a connection called again after its first call
NextCleanup ==
    \/ \E c \in Conns : Connect(c)
    \/ \E c \in Conns : ClientClose(c)
    \/ \E c \in Conns, tok \in Tokens, shard \in Shards, free \in BOOLEAN :
          RecvIdentify(c, tok, shard, free)
    \/ \E c \in Conns : Continue(c)
    \/ \E c \in Conns : Cleanup(c)
    \/ \E c \in Conns : CleanupAgain(c)
    \/ \E c \in Conns : Reap(c)
    \/ \E h \in Https : PostMessage(h)
    \/ \E t \in Tasks : FoLock(t)
    \/ \E t \in Tasks : FoSendDone(t)
    \/ \E t \in Tasks : FoSendFail(t)

SpecCleanup == Init /\ [][NextCleanup]_vars

\* ------------------------------------------------------------ a session with a full ring
\* The state after one IDENTIFY on c1, its READY (s = 1) and sent - 1 messages
\* posted to the guild's channel while c1 stayed connected
WindowState(sent) ==
    LET evs == [i \in 1 .. (sent - 1) |-> Frame("DISPATCH", "MESSAGE_CREATE", i + 1, "")]
        ring == IF Len(evs) > RESUME_MAX_EVENTS
                THEN SubSeq(evs, Len(evs) - RESUME_MAX_EVENTS + 1, Len(evs))
                ELSE evs
    IN [frames |-> <<Frame("HELLO", "", 0, ""), Frame("DISPATCH", "READY", 1, "")>> \o evs,
        state |-> [NewState("t1", "u1") EXCEPT !.sent_seq = sent, !.events = ring]]

InitWindow ==
    \E k \in 0 .. WindowSlack :
       LET w == WindowState(RESUME_MAX_EVENTS + k) IN
       /\ ws = [c \in Conns |-> IF c = "c1" THEN "open" ELSE "new"]
       /\ closeCode = [c \in Conns |-> 0]
       /\ identified = [c \in Conns |-> c = "c1"]
       /\ cstate = [c \in Conns |-> IF c = "c1" THEN 1 ELSE 0]
       /\ session_id = [c \in Conns |-> IF c = "c1" THEN 1 ELSE 0]
       /\ lock = [c \in Conns |-> "free"]
       /\ frames = [c \in Conns |-> IF c = "c1" THEN w.frames ELSE <<>>]
       /\ rs = [c \in Conns |-> NoRs]
       /\ pc = [t \in Tasks |-> IF t \in Conns \ {"c1"} THEN "new" ELSE "idle"]
       /\ fo = [t \in Tasks |-> NoFo]
       /\ sess = <<w.state>>
       /\ registry = {1}
       /\ connections = [u \in Users |-> IF u = "u1" THEN <<"c1">> ELSE <<>>]
       /\ viewers = {"u1"}
       /\ presence = [u \in Users |-> IF u = "u1" THEN "online" ELSE "offline"]
       /\ nEvents = 0
       /\ nResumes = 0
       /\ resumed = {}
       /\ timers = [c \in Conns |-> IF c = "c1" THEN {0} ELSE {}]
       /\ beats = [c \in Conns |-> 0]
       /\ ApiIdle
       /\ FlakeIdle
       /\ SsidIdle

SpecWindow == InitWindow /\ [][Next]_vars


\* ------------------------------------------------------------ HTTP API
\* utils.py 56-58
ERRNO_TO_HTTPERR == [e \in {40001} |-> 403]

\* utils._err(msg, errno, status_code): the response's status and the code in
\* its body; errno 0 stands for None
err(errno, status_code) ==
    [status |-> IF errno \in DOMAIN ERRNO_TO_HTTPERR THEN ERRNO_TO_HTTPERR[errno]
                ELSE status_code,
     code |-> errno]

\* web.Response(status = ...) and utils._json: no error code in the body (-1)
ok(status) == [status |-> status, code |-> -1]

Reply(req, by, nonce, r) ==
    [req |-> req, by |-> by, nonce |-> nonce, status |-> r.status, code |-> r.code]

Evt(t, user, nonce) ==
    [t |-> t, id |-> "G", user |-> user, nonce |-> nonce, unavailable |-> FALSE]

\* server.get_connections(user_id): the user's connections not yet cleaned up
ConnsOf(u) == SelectSeq(LinkOrder, LAMBDA l : LinkUser(l) = u /\ sock[l] # "gone")

\* guild.members after reload_guild, in iteration order
MembersSeq(ids) == SelectSeq(MemberOrder, LAMBDA m : m \in ids)

\* What a handler's dispatches have done so far
Now == [inbox |-> inbox, lk |-> dispatch_lock, vw |-> watchers, blocked |-> FALSE]

\* User.dispatch over the connections ls: Connection.dispatch waits for the
\* dispatch lock (for ever when it was lost), a send on a closed socket raises
\* with the lock held and User.dispatch goes on with the next connection
RECURSIVE user_dispatch(_, _, _)
user_dispatch(evt, ls, st) ==
    IF ls = <<>> \/ st.blocked THEN st
    ELSE LET l == Head(ls) IN
         IF st.lk[l] # "free" THEN [st EXCEPT !.blocked = TRUE]
         ELSE IF sock[l] = "closed"
         THEN user_dispatch(evt, Tail(ls), [st EXCEPT !.lk[l] = "lost"])
         ELSE user_dispatch(evt, Tail(ls), [st EXCEPT !.inbox[l] = Append(@, evt)])

\* Guild.dispatch (unmark) and BaseChannel.dispatch (no unmark) over the
\* members ms: only viewers are served, Guild.dispatch unmarks a viewer whose
\* User.dispatch found no connection
RECURSIVE guild_dispatch(_, _, _, _)
guild_dispatch(evt, ms, unmark, st) ==
    IF ms = <<>> \/ st.blocked THEN st
    ELSE LET m == Head(ms) IN
         IF m \notin st.vw THEN guild_dispatch(evt, Tail(ms), unmark, st)
         ELSE IF ConnsOf(m) = <<>>
         THEN guild_dispatch(evt, Tail(ms), unmark,
                             IF unmark THEN [st EXCEPT !.vw = @ \ {m}] ELSE st)
         ELSE guild_dispatch(evt, Tail(ms), unmark, user_dispatch(evt, ConnsOf(m), st))

\* The end of a handler: what its dispatches did, and its response unless it
\* waits for ever for a dispatch lock
Settle(st, reply) ==
    /\ inbox' = st.inbox
    /\ dispatch_lock' = st.lk
    /\ watchers' = st.vw
    /\ IF st.blocked
       THEN stuck' = stuck + 1 /\ replies' = replies
       ELSE stuck' = stuck /\ replies' = Append(replies, reply)

\* A response without any dispatch
Answer(reply) ==
    /\ replies' = Append(replies, reply)
    /\ UNCHANGED <<inbox, dispatch_lock, watchers, stuck>>

\* the client side of a gateway connection closes
LinkClose(l) ==
    /\ sock[l] = "open"
    /\ Cardinality({k \in Links : sock[k] # "open"}) < MaxDrops
    /\ sock' = [sock EXCEPT ![l] = "closed"]
    /\ UNCHANGED <<member_ids, banned_ids, watchers, dispatch_lock, inbox, stuck, messages,
                   replies, pins, pin_pc, uses, uses0, accepts, db_users, nOps>>
    /\ UNCHANGED <<gvars, fvars, svars>>

\* Connection.cleanup: server.remove_connection
LinkCleanup(l) ==
    /\ sock[l] = "closed"
    /\ sock' = [sock EXCEPT ![l] = "gone"]
    /\ UNCHANGED <<member_ids, banned_ids, watchers, dispatch_lock, inbox, stuck, messages,
                   replies, pins, pin_pc, uses, uses0, accepts, db_users, nOps>>
    /\ UNCHANGED <<gvars, fvars, svars>>

\* POST /channels/{channel_id}/messages and GuildManager.new_message
h_post_message(user, ch, content, nonce) ==
    /\ nOps < MaxOps
    /\ nOps' = nOps + 1
    /\ IF ch = "none"
       THEN Answer(Reply("post", user, nonce, err(10003, 500))) /\ messages' = messages
       ELSE IF user \notin member_ids
       THEN Answer(Reply("post", user, nonce, err(40001, 500))) /\ messages' = messages
       ELSE IF content = ""
       THEN Answer(Reply("post", user, nonce, err(50006, 500))) /\ messages' = messages
       ELSE IF content = "long"
       THEN Answer(Reply("post", user, nonce, ok(400))) /\ messages' = messages
       ELSE /\ messages' = Append(messages, [author |-> user, nonce |-> nonce])
            /\ Settle(guild_dispatch(Evt("MESSAGE_CREATE", user, nonce),
                                     MembersSeq(member_ids), FALSE, Now),
                      Reply("post", user, nonce, ok(200)))
    /\ UNCHANGED <<member_ids, banned_ids, sock, pins, pin_pc, uses, uses0, accepts, db_users>>
    /\ UNCHANGED <<gvars, fvars, svars>>

\* GuildManager.remove_member(guild, user) after member_ids.remove: the guild,
\* reloaded without the user, gets GUILD_MEMBER_REMOVE, then the user's
\* connections get GUILD_DELETE
remove_member(user, st) ==
    user_dispatch(Evt("GUILD_DELETE", "none", "none"), ConnsOf(user),
                  guild_dispatch(Evt("GUILD_MEMBER_REMOVE", user, "none"),
                                 MembersSeq(member_ids \ {user}), TRUE, st))

\* DELETE /users/@me/guilds/{guild_id}
h_leave_guild(user) ==
    /\ nOps < MaxOps
    /\ nOps' = nOps + 1
    /\ IF user \notin member_ids
       THEN Answer(Reply("leave", user, "none", err(10004, 500))) /\ member_ids' = member_ids
       ELSE /\ member_ids' = member_ids \ {user}
            /\ Settle(remove_member(user, Now), Reply("leave", user, "none", ok(204)))
    /\ UNCHANGED <<banned_ids, sock, messages, pins, pin_pc, uses, uses0, accepts, db_users>>
    /\ UNCHANGED <<gvars, fvars, svars>>

\* DELETE /guilds/{guild_id}/members/{user_id} and GuildManager.kick_member
h_kick_member(user, member) ==
    /\ nOps < MaxOps
    /\ nOps' = nOps + 1
    /\ IF user \notin member_ids
       THEN Answer(Reply("kick", user, "none", err(10004, 500))) /\ member_ids' = member_ids
       ELSE IF member \notin member_ids
       THEN Answer(Reply("kick", user, "none", err(10007, 500))) /\ member_ids' = member_ids
       ELSE /\ member_ids' = member_ids \ {member}
            /\ Settle(remove_member(member, Now), Reply("kick", user, "none", ok(204)))
    /\ UNCHANGED <<banned_ids, sock, messages, pins, pin_pc, uses, uses0, accepts, db_users>>
    /\ UNCHANGED <<gvars, fvars, svars>>

\* PUT /guilds/{guild_id}/bans/{user_id} and GuildManager.ban_user
h_ban_member(user, target) ==
    /\ nOps < MaxOps
    /\ nOps' = nOps + 1
    /\ IF target \notin Accounts
       THEN /\ Answer(Reply("ban", user, "none", err(10013, 500)))
            /\ UNCHANGED <<member_ids, banned_ids>>
       ELSE IF target \in banned_ids
       THEN /\ Answer(Reply("ban", user, "none", err(0, 500)))
            /\ UNCHANGED <<member_ids, banned_ids>>
       ELSE LET st == guild_dispatch(Evt("GUILD_BAN_ADD", target, "none"),
                                     MembersSeq(member_ids), TRUE, Now)
            IN /\ banned_ids' = banned_ids \cup {target}
               /\ IF target \in member_ids /\ ~st.blocked
                  THEN /\ member_ids' = member_ids \ {target}
                       /\ Settle(remove_member(target, st), Reply("ban", user, "none", ok(204)))
                  ELSE /\ member_ids' = member_ids
                       /\ Settle(st, Reply("ban", user, "none", ok(204)))
    /\ UNCHANGED <<sock, messages, pins, pin_pc, uses, uses0, accepts, db_users>>
    /\ UNCHANGED <<gvars, fvars, svars>>

\* Invite.valid with an invite that has no expiry
valid(n) == n = -1 \/ ~(n < 1)

\* Invite.use: the uses left afterwards
use(n) == IF n = -1 THEN n ELSE n - 1

\* POST /invites/{invite_code}, Invite.use and GuildManager.add_member
h_accept_invite(user, code) ==
    /\ nOps < MaxOps
    /\ nOps' = nOps + 1
    /\ IF code = "none"
       THEN /\ Answer(Reply("accept", user, "none", err(10006, 500)))
            /\ UNCHANGED <<member_ids, uses, accepts>>
       ELSE IF ~valid(uses)
       THEN /\ Answer(Reply("accept", user, "none", err(0, 500)))
            /\ UNCHANGED <<member_ids, uses, accepts>>
       ELSE /\ uses' = use(uses)
            /\ IF user \in banned_ids
               THEN /\ Answer(Reply("accept", user, "none", err(0, 500)))
                    /\ UNCHANGED <<member_ids, accepts>>
               ELSE LET st == guild_dispatch(Evt("GUILD_MEMBER_ADD", user, "none"),
                                             MembersSeq(member_ids \cup {user}), TRUE, Now)
                    IN /\ member_ids' = member_ids \cup {user}
                       /\ accepts' = IF st.blocked THEN accepts ELSE accepts + 1
                       /\ Settle(st, Reply("accept", user, "none", ok(200)))
    /\ UNCHANGED <<banned_ids, sock, messages, pins, pin_pc, uses0, db_users>>
    /\ UNCHANGED <<gvars, fvars, svars>>

\* PUT /channels/{channel_id}/pins/{message_id} up to the return of
\* channel.get_pins()
PinCheck(p, user) ==
    /\ pin_pc[p] = "idle"
    /\ nOps < MaxOps
    /\ nOps' = nOps + 1
    /\ IF user \notin member_ids
       THEN /\ Answer(Reply("pin", user, "none", err(40001, 500)))
            /\ pin_pc' = [pin_pc EXCEPT ![p] = "done"]
       ELSE IF pins = PIN_LIMIT
       THEN /\ Answer(Reply("pin", user, "none", err(0, 500)))
            /\ pin_pc' = [pin_pc EXCEPT ![p] = "done"]
       ELSE /\ pin_pc' = [pin_pc EXCEPT ![p] = "checked"]
            /\ UNCHANGED <<replies, inbox, dispatch_lock, watchers, stuck>>
    /\ UNCHANGED <<member_ids, banned_ids, sock, messages, pins, uses, uses0, accepts, db_users>>
    /\ UNCHANGED <<gvars, fvars, svars>>

\* h_add_pin from channel.add_pin(message_id) on
PinAdd(p) ==
    /\ pin_pc[p] = "checked"
    /\ pins' = pins + 1
    /\ pin_pc' = [pin_pc EXCEPT ![p] = "done"]
    /\ Answer(Reply("pin", "none", "none", ok(204)))
    /\ UNCHANGED <<member_ids, banned_ids, sock, messages, uses, uses0, accepts, db_users, nOps>>
    /\ UNCHANGED <<gvars, fvars, svars>>

\* users of the name: the stock users and those of db_users
NameCount(db, n) ==
    (IF n = "n1" THEN StockUsers ELSE 0) + Cardinality({e \in Emails : db[e].username = n})

IsUsed(db, n, d) ==
    \/ n = "n1" /\ d >= 1000 /\ d < 1000 + StockUsers
    \/ \E e \in Emails : db[e].username = n /\ db[e].discriminator = d

\* DicexualServer.get_discrim: the discriminators it can return, 0 for None
get_discrim(db, n) ==
    IF NameCount(db, n) >= DISCRIM_LIMIT THEN {0}
    ELSE {d \in DiscrimDraws : ~IsUsed(db, n, d)}

\* POST /users/add
h_add_user(email, username) ==
    /\ nOps < MaxOps
    /\ nOps' = nOps + 1
    /\ IF db_users[email] # NoUser
       THEN db_users' = db_users
       ELSE \E discrim \in get_discrim(db_users, username) :
               db_users' = [db_users EXCEPT ![email] =
                               [username |-> username, discriminator |-> discrim]]
    /\ UNCHANGED <<member_ids, banned_ids, watchers, sock, dispatch_lock, inbox, stuck,
                   messages, replies, pins, pin_pc, uses, uses0, accepts>>
    /\ UNCHANGED <<gvars, fvars, svars>>

\* PATCH /users/@me by the user registered with the email
h_patch_me(email, new_username) ==
    /\ nOps < MaxOps
    /\ db_users[email] # NoUser
    /\ nOps' = nOps + 1
    /\ \E new_discrim \in get_discrim(db_users, new_username) :
          db_users' = [db_users EXCEPT ![email] =
                          [username |-> new_username, discriminator |-> new_discrim]]
    /\ UNCHANGED <<member_ids, banned_ids, watchers, sock, dispatch_lock, inbox, stuck,
                   messages, replies, pins, pin_pc, uses, uses0, accepts>>
    /\ UNCHANGED <<gvars, fvars, svars>>

InitApi ==
    /\ GatewayInit
    /\ FlakeIdle
    /\ SsidIdle
    /\ \E n \in InviteUses : ApiStart(n)

NextApi ==
    \/ \E l \in Links : LinkClose(l)
    \/ \E l \in Links : LinkCleanup(l)
    \/ \E user \in Accounts, ch \in Channels, content \in Contents, nonce \in Nonces :
          h_post_message(user, ch, content, nonce)
    \/ \E user \in Accounts : h_leave_guild(user)
    \/ \E user, member \in Accounts : h_kick_member(user, member)
    \/ \E user \in Accounts, target \in BanTargets : h_ban_member(user, target)
    \/ \E user \in Accounts, code \in InviteCodes : h_accept_invite(user, code)
    \/ \E p \in PinReqs, user \in Accounts : PinCheck(p, user)
    \/ \E p \in PinReqs : PinAdd(p)
    \/ \E email \in Emails, username \in Usernames : h_add_user(email, username)
    \/ \E email \in Emails, username \in Usernames : h_patch_me(email, username)

SpecApi == InitApi /\ [][NextApi]_vars

\* ------------------------------------------------------------ snowflakes
\* '{0:b}'.format(n): the binary digits of n, most significant first
RECURSIVE ToBits(_)
ToBits(n) == IF n < 2 THEN <<n>> ELSE Append(ToBits(n \div 2), n % 2)

\* '{0:0wb}'.format(n): the digits padded with zeros on the left to at least w
Padded(n, w) ==
    LET b == ToBits(n)
    IN IF Len(b) >= w THEN b ELSE [i \in 1 .. (w - Len(b)) |-> 0] \o b

\* int(b, 2)
RECURSIVE FromBits(_)
FromBits(b) ==
    IF b = <<>> THEN 0 ELSE 2 * FromBits(SubSeq(b, 1, Len(b) - 1)) + b[Len(b)]

\* snowflake._snowflake(timestamp) with _id_in_process = counter
snowflake(timestamp, counter) ==
    LET since_epoch == timestamp - EPOCH
        res == Padded(since_epoch, 38) \o Padded(counter, 11)
    IN FromBits(SubSeq(res, 3, Len(res)))

\* snowflake.snowflake_time(snowflake)
snowflake_time(sf) ==
    LET b_snowflake == Padded(sf, 49)
    IN EPOCH + FromBits(SubSeq(b_snowflake, 1, 37))

\* the counter values a behaviour goes through
CounterRange == UNION {s .. (s + MaxIds) : s \in CounterStarts}

\* snowflake.get_snowflake()
get_snowflake ==
    /\ id_in_process + 1 \in CounterRange
    /\ LET id == snowflake(clock, id_in_process)
       IN made' = [at |-> clock, counter |-> id_in_process, id |-> id,
                   back |-> snowflake_time(id)]
    /\ id_in_process' = id_in_process + 1
    /\ clock' = clock
    /\ UNCHANGED <<gvars, avars, svars>>

\* a second passes
Tick ==
    /\ clock < EPOCH + MaxDt
    /\ clock' = clock + 1
    /\ UNCHANGED <<id_in_process, made>>
    /\ UNCHANGED <<gvars, avars, svars>>

InitFlake ==
    /\ GatewayInit
    /\ ApiIdle
    /\ SsidIdle
    /\ id_in_process \in CounterStarts
    /\ clock \in EPOCH .. (EPOCH + MaxDt)
    /\ made = NoId

NextFlake ==
    \/ get_snowflake
    \/ Tick

SpecFlake == InitFlake /\ [][NextFlake]_vars

\* ------------------------------------------------------------ session ids
\* the ids that are keys of server.sessions
InSessions == {s \in SidDraws : sessions[s] # "none"}

\* identify_handler 505 / gen_sessid 210-212: an IDENTIFY reaches the
\* generation of its session id; tries = 0 and the first random_sid() is drawn.
\* gen_sessid has no await: no other handler runs until it returns
Identify(i, drawn) ==
    /\ id_pc[i] = "idle"
    /\ \A j \in Idents : id_pc[j] # "gen"
    /\ new_id' = [new_id EXCEPT ![i] = drawn]
    /\ tries' = [tries EXCEPT ![i] = 0]
    /\ id_pc' = [id_pc EXCEPT ![i] = "gen"]
    /\ UNCHANGED <<sessions, id_close>>
    /\ UNCHANGED <<gvars, avars, fvars>>

\* gen_sessid 213-220, one test of the while condition: an unused id is
\* returned and becomes self.session_id (identify_handler 516); a used one is
\* drawn again unless tries has reached MAX_TRIES, when None is returned and
\* identify_handler closes with SESSION_TIMEOUT (506-514)
GenStep(i, drawn) ==
    /\ id_pc[i] = "gen"
    /\ IF new_id[i] \notin InSessions
       THEN /\ id_pc' = [id_pc EXCEPT ![i] = "assigned"]
            /\ UNCHANGED <<new_id, tries, id_close>>
       ELSE IF tries[i] >= MAX_TRIES
       THEN /\ id_pc' = [id_pc EXCEPT ![i] = "closed"]
            /\ id_close' = [id_close EXCEPT ![i] = 4009]
            /\ new_id' = [new_id EXCEPT ![i] = "none"]
            /\ UNCHANGED tries
       ELSE /\ new_id' = [new_id EXCEPT ![i] = drawn]
            /\ tries' = [tries EXCEPT ![i] = @ + 1]
            /\ UNCHANGED <<id_pc, id_close>>
    /\ UNCHANGED sessions
    /\ UNCHANGED <<gvars, avars, fvars>>

\* identify_handler 518-550: after the awaits of guild_count,
\* chk_shard_amount and presence.global_update, add_connection registers the
\* session under its id
Register(i) ==
    /\ id_pc[i] = "assigned"
    /\ \A j \in Idents : id_pc[j] # "gen"
    /\ sessions' = [sessions EXCEPT ![new_id[i]] = i]
    /\ id_pc' = [id_pc EXCEPT ![i] = "registered"]
    /\ UNCHANGED <<new_id, tries, id_close>>
    /\ UNCHANGED <<gvars, avars, fvars>>

InitSsid ==
    /\ GatewayInit
    /\ ApiIdle
    /\ FlakeIdle
    /\ SsidIdle

NextSsid ==
    \/ \E i \in Idents, drawn \in SidDraws : Identify(i, drawn)
    \/ \E i \in Idents, drawn \in SidDraws : GenStep(i, drawn)
    \/ \E i \in Idents : Register(i)

SpecSsid == InitSsid /\ [][NextSsid]_vars

TypeOK ==
    /\ \A c \in Conns : ws[c] \in {"new", "open", "closed"}
    /\ \A c \in Conns : cstate[c] \in 0 .. Len(sess)
    /\ \A c \in Conns : identified[c] => cstate[c] # 0
    /\ registry \subseteq 1 .. Len(sess)

\* ------------------------------------------------------------ observations
Last(sq) == sq[Len(sq)]

\* The DISPATCH frames transmitted on a connection, in transmission order
Dispatches(c) == SelectSeq(frames[c], LAMBDA f : f.op = "DISPATCH")

IsEvent(f) == f.op = "DISPATCH" /\ f.t \notin {"READY", "RESUMED"}

\* This step transmits INVALID_SESSION on c
SendsInvalid(c) ==
    /\ Len(frames'[c]) = Len(frames[c]) + 1
    /\ Last(frames'[c]).op = "INVALID_SESSION"

\* The connection that created session sid by IDENTIFY got its READY, was
\* dropped and has been cleaned up
OwnerCleanedUp(sid) ==
    \E o \in Conns :
       /\ session_id[o] = sid
       /\ pc[o] = "cleaned"
       /\ \E i \in 1 .. Len(frames[o]) : frames[o][i].t = "READY"

\* No connection is attached to session sid: its owner is gone and the
\* dispatcher holds no connection of its user
Detached(sid) ==
    /\ \E o \in Conns : session_id[o] = sid /\ pc[o] \in {"cleaned", "dead"}
    /\ connections[sess[sid].user] = <<>>

\* A RESUME being handled on c that named a registered session with its token
ValidResume(c) == rs[c].stage \in {"future", "window", "replay", "replayed"}

\* The frames transmitted on c since its replay began
Replayed(c) == SubSeq(frames[c], rs[c].f0 + 1, Len(frames[c]))

\* The cached payloads a replay from client sequence rs[c].seq is to resend
Cached(c) ==
    SelectSeq(sess[cstate[c]].events,
              LAMBDA e : e.s > rs[c].seq /\ e.s <= rs[c].sent /\ e.t # "PRESENCE_UPDATE")

\* ------------------------------------------------------------ claims
\* C1: after the connection that completed IDENTIFY for session S is dropped
\* and cleaned up, a RESUME received on a new connection with S, the token S
\* was created with and a seq inside the resume window finds S in the registry
\* with that token and is not turned down with INVALID_SESSION.
C1_ResumeAfterDrop ==
    [][\A c \in Conns :
          (/\ rs[c].stage = "none" /\ rs'[c].stage # "none"
           /\ session_id[c] = 0
           /\ rs'[c].sid \in 1 .. Len(sess)
           /\ OwnerCleanedUp(rs'[c].sid)
           /\ rs'[c].tok = TokenOf(sess[rs'[c].sid].user)
           /\ rs'[c].seq <= sess[rs'[c].sid].sent_seq
           /\ sess[rs'[c].sid].sent_seq - rs'[c].seq < RESUME_MAX_EVENTS)
          => /\ rs'[c].sid \in registry
             /\ sess[rs'[c].sid].token = rs'[c].tok
             /\ pc'[c] # "inv_send"]_vars

\* C2: in the step that ends the replay of a RESUME with client sequence n on
\* a new connection,
\* the frames the replay transmitted are exactly the cached payloads with s in
\* (n, sent_seq], in ring order, PRESENCE_UPDATEs left out for the batch.
C2_ReplayExact ==
    [][\A c \in Conns :
          (/\ pc[c] \notin {"inv_send", "rs_tail"}
           /\ pc'[c] \in {"inv_send", "rs_tail"}
           /\ rs'[c].stage \in {"replay", "replayed"}
           /\ session_id[c] = 0)
          => Replayed(c)' = Cached(c)']_vars

\* C3: a message posted to the guild while a registered session of a member
\* has no attached connection is assigned the session's next seq and recorded
\* in its ring.
C3_DetachedRecorded ==
    [][\A sid \in registry :
          ((\E h \in Https : PostMessage(h)) /\ Detached(sid))
          => /\ sess'[sid].sent_seq = sess[sid].sent_seq + 1
             /\ sess'[sid].events # <<>>
             /\ Last(sess'[sid].events).s = sess'[sid].sent_seq]_vars

\* C4: a RESUME on a new connection with valid session and token whose seq
\* equals the session's sent_seq is not answered with INVALID_SESSION.
C4_SeqEqualsSent ==
    [][\A c \in Conns :
          (/\ ValidResume(c) /\ rs[c].seq = rs[c].sent /\ rs[c].sent >= 1
           /\ session_id[c] = 0
           /\ Len(frames'[c]) > Len(frames[c]))
          => Last(frames'[c]).op # "INVALID_SESSION"]_vars

\* C5: a RESUME on a new connection with valid session and token and
\* seq <= sent_seq is turned
\* down for its distance exactly when sent_seq - seq is 61 or more; at 60 it
\* goes on to the replay.
C5_Window ==
    \A c \in Conns :
       (ValidResume(c) /\ rs[c].stage # "future" /\ session_id[c] = 0)
       => (rs[c].stage = "window" <=> rs[c].sent - rs[c].seq >= RESUME_MAX_EVENTS + 1)

\* C6: when INVALID_SESSION(false) answers a RESUME naming a session of the
\* registry, that session is not in the registry afterwards; when
\* INVALID_SESSION(true) is sent the registry does not change.
C6_InvalidationRemoves ==
    [][\A c \in Conns :
          (pc[c] = "inv_send" /\ SendsInvalid(c))
          => IF rs[c].flag
             THEN registry' = registry
             ELSE rs[c].sid \in registry => rs[c].sid \notin registry']_vars

\* C7: the DISPATCH frames transmitted on a connection (one no RESUME was
\* received on, so that nothing is replayed on it) carry s values that each
\* are the previous one plus one.
C7_NoGap ==
    \A c \in Conns \ resumed :
       \A i \in 1 .. Len(Dispatches(c)) - 1 :
          Dispatches(c)[i + 1].s = Dispatches(c)[i].s + 1

\* C8: every session of the registry has sent_seq >= 0 and a ring of at most
\* RESUME_MAX_EVENTS payloads with strictly increasing s.
C8_RingOrdered ==
    \A sid \in registry :
       /\ sess[sid].sent_seq >= 0
       /\ Len(sess[sid].events) <= RESUME_MAX_EVENTS
       /\ \A i \in 1 .. Len(sess[sid].events) - 1 :
             sess[sid].events[i].s < sess[sid].events[i + 1].s

\* C9 as stated: on a connection that IDENTIFYed, the DISPATCH frame that
\* follows READY carries s = 1.
C9_FirstIsOne ==
    \A c \in Conns \ resumed :
       \A i \in 1 .. Len(Dispatches(c)) - 1 :
          Dispatches(c)[i].t = "READY" => Dispatches(c)[i + 1].s = 1

\* C9 amended: on a connection that IDENTIFYed and received no RESUME, READY
\* itself carries s >= 1 and every DISPATCH frame after it carries a greater s,
\* so the first event after READY carries s >= 2.
C9_AfterReady ==
    \A c \in Conns \ resumed :
       \A i \in 1 .. Len(Dispatches(c)) :
          Dispatches(c)[i].t = "READY"
          => /\ Dispatches(c)[i].s >= 1
             /\ \A j \in (i + 1) .. Len(Dispatches(c)) :
                   /\ Dispatches(c)[j].s > Dispatches(c)[i].s
                   /\ Dispatches(c)[j].s >= 2

C9_Witness ==
    \E c \in Conns \ resumed :
       /\ Len(Dispatches(c)) = 2
       /\ Dispatches(c)[1].t = "READY" /\ Dispatches(c)[1].s = 1
       /\ Dispatches(c)[2].t = "MESSAGE_CREATE" /\ Dispatches(c)[2].s = 2

\* C10: on a connection that IDENTIFYed, no event is transmitted before the
\* connection's READY.
C10_ReadyFirst ==
    \A c \in Conns \ resumed :
       \A i \in 1 .. Len(frames[c]) :
          IsEvent(frames[c][i]) => \E j \in 1 .. (i - 1) : frames[c][j].t = "READY"

\* The connection is identified and its READY has been transmitted
Established(c) ==
    /\ identified[c]
    /\ \E i \in 1 .. Len(frames[c]) : frames[c][i].t = "READY"

\* C11: every Established connection (one no RESUME was received on) has a
\* session and that session is in the registry.
C11_EstablishedRegistered ==
    \A c \in Conns \ resumed :
       Established(c) => (cstate[c] # 0 /\ cstate[c] \in registry)

\* ------------------------------------------------------------ heartbeats
\* C12: a HEARTBEAT handled on an open connection, in any state and with any
\* payload, leaves exactly one timer armed (the new one) and sends one
\* HEARTBEAT_ACK.
C12_HeartbeatRearms ==
    [][\A c \in Conns :
          (ws[c] = "open" /\ beats'[c] = beats[c] + 1) =>
             /\ timers'[c] = {beats'[c]}
             /\ frames'[c] = Append(frames[c], Frame("HEARTBEAT_ACK", "", 0, ""))]_vars

SpecShardInvalid(tok, shard) ==
    \/ ~(shard[2] >= 1 /\ shard[1] < shard[2])
    \/ (shard[2] > 1 /\ ~IsBot(token_find(tok)))

\* The close code of the first failing check in the specified order, 0 if none
SpecFirstFailing(c, tok, shard, free) ==
    IF identified[c] THEN 4005
    ELSE IF token_find(tok) = "none" THEN 4004
    ELSE IF SpecShardInvalid(tok, shard) THEN 4011
    ELSE IF IsBot(token_find(tok)) /\ guild_count(token_find(tok)) > 2500 /\ shard[2] = 1
         THEN 4011
    ELSE IF ~free THEN 4009
    ELSE 0

\* C14: an IDENTIFY that fails a check closes the connection with the code of
\* the first failing check in the order 4005, 4004, 4011 (shard), 4011
\* (unsharded bot in more than 2500 guilds), 4009; no session is registered and
\* the connection does not become identified.
C14_RejectOrder ==
    [][\A c \in Conns, tok \in Tokens, shard \in Shards, free \in BOOLEAN :
          (RecvIdentify(c, tok, shard, free) /\ SpecFirstFailing(c, tok, shard, free) # 0) =>
             /\ ws'[c] = "closed"
             /\ closeCode'[c] = SpecFirstFailing(c, tok, shard, free)
             /\ registry' = registry
             /\ (~identified[c] => ~identified'[c])]_vars

\* C15: an IDENTIFY with a valid token on a connection that is not identified
\* whose shard is not [id, count] with count >= 1 and id < count, or that asks
\* sharding for a non-bot account, is closed with 4011.
C15_ShardRejected ==
    [][\A c \in Conns, tok \in Tokens, shard \in Shards, free \in BOOLEAN :
          (/\ RecvIdentify(c, tok, shard, free)
           /\ ~identified[c]
           /\ token_find(tok) # "none"
           /\ SpecShardInvalid(tok, shard)) =>
             (ws'[c] = "closed" /\ closeCode'[c] = 4011)]_vars

\* ------------------------------------------------------------ ops before IDENTIFY
\* C16: STATUS_UPDATE, REQUEST_GUILD_MEMBERS, GUILD_SYNC, VOICE_STATE_UPDATE or
\* VOICE_SERVER_PING received on a connection that is not identified closes it
\* with 4003 and changes no presence, viewer set or session state.
C16_NotAuthenticated ==
    [][\A c \in Conns :
          (/\ ~identified[c]
           /\ \/ \E status \in Statuses : StatusUpdate(c, status)
              \/ \E g \in Guilds : ReqGuild(c, g)
              \/ \E g \in Guilds : GuildSync(c, g)
              \/ VStateUpdate(c)
              \/ VPing(c)) =>
             /\ ws'[c] = "closed" /\ closeCode'[c] = 4003
             /\ presence' = presence /\ viewers' = viewers
             /\ sess' = sess /\ registry' = registry]_vars

\* ------------------------------------------------------------ fan-out
\* C17: a guild or channel fan-out never waits for the dispatch lock of a
\* connection the send to which failed during a fan-out (a lock that is never
\* released), so a fan-out that includes the failed connection completes.
C17_FanoutNotBlocked ==
    \A t \in Tasks :
       (pc[t] = "fo_lock" /\ fo[t].mode \in {"guild", "channel"}) =>
          lock[fo[t].cur] # "lost"

\* C18: when the only send of a viewer's user dispatch in a guild dispatch
\* fails (the user has one connection and no other connection ever had a
\* session), the viewer had zero successful connections and is removed from
\* the viewer set.
C18_FailedViewerRemoved ==
    [][\A t \in Tasks :
          (/\ FoSendFail(t)
           /\ fo[t].mode = "guild"
           /\ fo[t].conns = <<>>
           /\ \A o \in Conns \ {fo[t].cur} : cstate[o] = 0) =>
             sess[cstate[fo[t].cur]].user \notin viewers']_vars

\* ------------------------------------------------------------ viewers
\* Connection c is on a session marked as coming from an atomic client
AtomicClient(c) == session_id[c] \in atomic_markers

\* This step is the guild subscription of c's IDENTIFY (make_guild_list)
IdentifySubscribes(c) == pc[c] = "id_guilds" /\ pc'[c] = "id_ready"

\* C19: the IDENTIFY of a non-atomic client adds the user to the viewer set of
\* the guild they are a member of, the IDENTIFY of an atomic client leaves the
\* viewer set as it is, a GUILD_SYNC of an atomic client naming the guild adds
\* the user, and a user enters the viewer set in no other step.
C19_ViewerSubscription ==
    [][/\ \A c \in Conns :
             IdentifySubscribes(c) =>
                IF AtomicClient(c) THEN viewers' = viewers
                ELSE viewers' = viewers \cup {sess[cstate[c]].user}
       /\ \A c \in Conns :
             (GuildSync(c, "g1") /\ identified[c] /\ AtomicClient(c)) =>
                sess[cstate[c]].user \in viewers'
       /\ \A u \in Users :
             (u \notin viewers /\ u \in viewers') =>
                \E c \in Conns :
                   /\ cstate[c] # 0 /\ sess[cstate[c]].user = u
                   /\ \/ IdentifySubscribes(c) /\ ~AtomicClient(c)
                      \/ GuildSync(c, "g1") /\ identified[c] /\ AtomicClient(c)]_vars

\* An atomic client, the only identified connection, has got its GUILD_SYNC
\* and its user is a viewer
C19_Witness ==
    \E c \in Conns :
       /\ identified[c] /\ AtomicClient(c)
       /\ \A o \in Conns \ {c} : ~identified[o]
       /\ \E i \in 1 .. Len(frames[c]) : frames[c][i].t = "GUILD_SYNC"
       /\ sess[cstate[c]].user \in viewers

\* ------------------------------------------------------------ offline presence
\* C20: the cleanup of an Established connection sets the user's presence to
\* offline and runs the guild dispatch of the offline PRESENCE_UPDATE (which
\* drops the connection-less user from the viewers) exactly when no other
\* connection of the user remains; otherwise presence and viewers are untouched.
C20_OfflineIffLast ==
    [][\A c \in Conns :
          (Cleanup(c) /\ Established(c)) =>
             LET u == sess[cstate[c]].user
                 others == SelectSeq(connections[u], LAMBDA x : x # c)
             IN IF others = <<>>
                THEN presence'[u] = "offline" /\ u \notin viewers'
                ELSE presence' = presence /\ viewers' = viewers]_vars

\* An Established connection has been cleaned up while another connection of
\* its user remains, and the user is not offline
C20_Witness ==
    \E c \in Conns, o \in Conns :
       /\ o # c
       /\ pc[c] = "cleaned"
       /\ \E i \in 1 .. Len(frames[c]) : frames[c][i].t = "READY"
       /\ Established(o)
       /\ sess[cstate[o]].user = sess[cstate[c]].user
       /\ presence[sess[cstate[c]].user] # "offline"

\* ------------------------------------------------------------ presence
PresenceStatuses == {"online", "idle", "dnd", "offline"}

\* C22: every stored presence and every PRESENCE_UPDATE transmitted has a
\* status in {online, idle, dnd, offline}.
C22_StatusInSet ==
    /\ \A u \in Users : presence[u] \in PresenceStatuses
    /\ \A c \in Conns : \A i \in 1 .. Len(frames[c]) :
          frames[c][i].t = "PRESENCE_UPDATE" => frames[c][i].d \in PresenceStatuses

\* The connections a fan-out task still has to send its event to
Targets(t) ==
    IF pc[t] \in {"fo_send", "fo_lock"}
    THEN {fo[t].cur} \cup {fo[t].conns[i] : i \in 1 .. Len(fo[t].conns)}
    ELSE {}

IdleUpdate == [t |-> "PRESENCE_UPDATE", d |-> "idle"]

Count(sq, P(_)) == Cardinality({i \in DOMAIN sq : P(sq[i])})

\* C23: two posts with the same nonce by the same author leave one stored
\* message and one MESSAGE_CREATE per connection, and the later of the two
\* requests is answered with HTTP 409.
C23_NonceOnce ==
    \A u \in Accounts, n \in Nonces :
       /\ Count(messages, LAMBDA m : m.author = u /\ m.nonce = n) <= 1
       /\ \A l \in Links : Count(inbox[l], LAMBDA e : e = Evt("MESSAGE_CREATE", u, n)) <= 1
       /\ \A i, j \in DOMAIN replies :
             (/\ i < j
              /\ replies[i].req = "post" /\ replies[i].by = u /\ replies[i].nonce = n
              /\ replies[j].req = "post" /\ replies[j].by = u /\ replies[j].nonce = n
              /\ replies[i].status = 200
              /\ replies[j].code = -1 /\ replies[j].status # 400)
             => replies[j].status = 409

\* ------------------------------------------------------------ pins
\* C24: the channel never has more than 50 pinned messages, whatever pin
\* requests are between their limit check and their insertion.
C24_PinLimit == pins <= PIN_LIMIT

\* ------------------------------------------------------------ guild membership
\* C25: whatever leave, kick and ban requests were served, the owner of the
\* guild is in its member_ids.
C25_OwnerIsMember == owner_id \in member_ids

\* C26: a kick of member A removes A from member_ids, appends GUILD_DELETE
\* {id: G, unavailable: false} on every open connection of A, appends
\* GUILD_MEMBER_REMOVE with A on every open connection of every remaining
\* viewer, and delivers no GUILD_MEMBER_REMOVE to A.
C26_KickEvents ==
    [][\A user, member \in Accounts :
          (h_kick_member(user, member) /\ user \in member_ids /\ member \in member_ids)
          => /\ member \notin member_ids'
             /\ \A l \in Links :
                   IF LinkUser(l) = member
                   THEN /\ sock[l] = "open"
                           => inbox'[l] = Append(inbox[l], Evt("GUILD_DELETE", "none", "none"))
                        /\ Count(inbox'[l], LAMBDA e : e.t = "GUILD_MEMBER_REMOVE") =
                              Count(inbox[l], LAMBDA e : e.t = "GUILD_MEMBER_REMOVE")
                   ELSE (LinkUser(l) \in member_ids \cap watchers /\ sock[l] = "open")
                        => inbox'[l] = Append(inbox[l],
                                              Evt("GUILD_MEMBER_REMOVE", member, "none"))
      ]_vars

\* ------------------------------------------------------------ user names
\* C27: of every username there are at most 8000 users, and no two of them
\* have the same discriminator; a registration beyond the limit adds no user.
C27_DiscrimLimit ==
    /\ \A n \in Usernames :
          /\ NameCount(db_users, n) <= DISCRIM_LIMIT
          /\ \A e \in Emails : db_users[e].username = n =>
                /\ ~(n = "n1" /\ db_users[e].discriminator >= 1000
                              /\ db_users[e].discriminator < 1000 + StockUsers)
                /\ \A f \in Emails \ {e} : db_users[f].username = n =>
                      db_users[f].discriminator # db_users[e].discriminator
    /\ [][\A email \in Emails, n \in Usernames :
             (h_add_user(email, n) /\ NameCount(db_users, n) >= DISCRIM_LIMIT)
             => db_users' = db_users]_vars

\* ------------------------------------------------------------ snowflake time
\* C28: snowflake_time of an id generated at time t is t, for every t and
\* every value of the per-process counter.
C28_TimeRecovered == made # NoId => made.back = made.at

C30_StatusByCode ==
    \A i \in DOMAIN replies :
       LET r == replies[i] IN
       /\ (r.code >= 10000 /\ r.code < 11000) => r.status = 404
       /\ r.code = 40001 => r.status = 403
       /\ (r.code >= 50000 /\ r.code < 51000) => r.status = 400

\* C31: a dispatch advances the sent_seq of the connection's session by one
\* when it takes the dispatch lock and stamps the payload with the new value;
\* when its send returns, READY and RESUMED leave the ring of the
\* connection's session unchanged, and any other event is appended to that
\* ring (evicting the oldest entry of a full ring) with s equal to the
\* session's sent_seq.
C31_DispatchFrameEffect ==
    [][/\ \A t \in Tasks, c \in Conns :
             (lock[c] = "free" /\ lock'[c] = t /\ pc'[t] = "fo_send"
                /\ fo'[t].cur = c)
             => /\ sess'[cstate[c]].sent_seq = sess[cstate[c]].sent_seq + 1
                /\ fo'[t].s = sess'[cstate[c]].sent_seq
       /\ \A t \in Tasks :
             FoSendDone(t)
             => LET c == fo[t].cur
                    sid == cstate[c]
                    p == Payload(fo[t])
                IN IF p.t \in {"READY", "RESUMED"}
                   THEN sess'[sid].events = sess[sid].events
                   ELSE /\ sess'[sid].events = StateAdd(sess[sid].events, p)
                        /\ p.s = sess[sid].sent_seq]_vars

\* C33: from the first replayed frame of a RESUME until RESUMED has been
\* sent, the only frames transmitted on the resuming connection are the
\* replayed payloads, PRESENCES_REPLACE and RESUMED, and the session of the
\* resuming connection (sent_seq and ring) is changed by no dispatch other
\* than the resume's own PRESENCES_REPLACE and RESUMED.
C33_ReplayExclusive ==
    [][\A c \in Conns :
         LET ResumeEvents == {"PRESENCES_REPLACE", "RESUMED"}
             InResume ==
                 /\ rs[c].stage \in {"replay", "replayed"}
                 /\ Len(frames[c]) > rs[c].f0
                 /\ \A i \in 1..Len(Replayed(c)) : Replayed(c)[i].t # "RESUMED"
                 /\ \/ pc[c] \in {"rs_send", "rs_tail", "rs_resumed"}
                    \/ /\ pc[c] \in {"fo_lock", "fo_send"}
                       /\ \/ fo[c].ret \in {"rs_tail", "rs_resumed"}
                          \/ fo[c].evt.t = "RESUMED"
             OwnStep ==
                 /\ <<pc[c], fo[c]>> # <<pc'[c], fo'[c]>>
                 /\ fo[c].evt.t \in ResumeEvents \/ fo'[c].evt.t \in ResumeEvents
         IN InResume
            => /\ frames'[c] # frames[c]
                  => \/ /\ pc[c] = "rs_send"
                        /\ frames'[c] = Append(frames[c], rs[c].evt)
                     \/ /\ pc[c] = "fo_send"
                        /\ fo[c].cur = c
                        /\ fo[c].evt.t \in ResumeEvents
                        /\ frames'[c] = Append(frames[c], Payload(fo[c]))
               /\ sess'[cstate[c]] # sess[cstate[c]] => OwnStep]_vars

\* C34: the session id an IDENTIFY is given is no key of the registry when
\* it is given, no two registered sessions have the same id, and an IDENTIFY
\* closed with 4009 has drawn a used id 20 times again and has registered
\* nothing.
C34_SessionIdUnused ==
    /\ [][\A i \in Idents :
             (id_pc[i] = "gen" /\ id_pc'[i] = "assigned")
             => new_id'[i] \notin InSessions]_vars
    /\ [](\A i, j \in Idents :
             (i # j /\ id_pc[i] = "registered" /\ id_pc[j] = "registered")
             => new_id[i] # new_id[j])
    /\ [](\A i \in Idents :
             id_close[i] = 4009
             => /\ tries[i] = MAX_TRIES
                /\ id_pc[i] = "closed"
                /\ \A s \in SidDraws : sessions[s] # i)

\* C35: once a connection's socket is closed and its cleanup has run, no
\* heartbeat deadline timer of that connection is armed any more, so none
\* can fire afterwards.
C35_TimerCancelled ==
    \A c \in Conns : (ws[c] = "closed" /\ pc[c] = "cleaned") => timers[c] = {}

\* C36: a connection that has been cleaned up is never in a state in which
\* another call of cleanup reaches presence.global_update, and such a call
\* removes no connection and changes neither the stored presence, nor a
\* session, nor the registry, nor the viewers.
C36_CleanupOnce ==
    /\ [](\A c \in Conns :
             (ws[c] = "closed" /\ pc[c] = "cleaned") => ~UpdatesOffline(c))
    /\ [][\A c \in Conns :
             CleanupAgain(c)
             => /\ connections' = connections
                /\ presence' = presence
                /\ sess' = sess
                /\ registry' = registry
                /\ viewers' = viewers]_vars

\* C37: whenever no task is inside a send of Connection.dispatch to a
\* connection and the connection's handler is not inside _resume (a replayed
\* send or the INVALID_SESSION it sends on failure), the connection's
\* dispatch lock is free.
C37_LockFreeWhenIdle ==
    \A c \in Conns :
       (/\ \A t \in Tasks : ~(pc[t] = "fo_send" /\ fo[t].cur = c)
        /\ pc[c] \notin {"rs_send", "inv_send"})
       => lock[c] = "free"

\* C38: no two identified connections refer to the same session, and a
\* connection that is identified keeps the session it has.
C38_OneConnectionPerSession ==
    /\ [](\A c, d \in Conns :
             (c # d /\ identified[c] /\ identified[d]) => cstate[c] # cstate[d])
    /\ [][\A c \in Conns :
             (identified[c] /\ cstate[c] # 0) => cstate'[c] = cstate[c]]_vars

\* C39: every user id in the guild's viewer set is the id of a member of the
\* guild.
C39_ViewersAreMembers == watchers \subseteq member_ids

\* C32: a connection that got RESUMED for a RESUME whose replayed range held
\* PRESENCE_UPDATEs has received exactly one PRESENCES_REPLACE since the
\* replay began, after the replayed payloads and before RESUMED; and the
\* handling of a RESUME received on a new connection, with a registered
\* session, its token and a seq inside the window, whose range (seq,
\* sent_seq] holds a cached PRESENCE_UPDATE, ends with PRESENCES_REPLACE and
\* then RESUMED transmitted.
C32_PresencesReplaceOnce ==
    /\ [](\A c \in Conns :
            LET fr == Replayed(c)
                At(t) == {i \in 1 .. Len(fr) : fr[i].t = t}
                n == rs[c].i - rs[c].seq - Len(rs[c].pres)
            IN (rs[c].stage = "replayed" /\ rs[c].pres # <<>> /\ At("RESUMED") # {})
               => /\ Cardinality(At("PRESENCES_REPLACE")) = 1
                  /\ \A k \in At("PRESENCES_REPLACE") :
                        /\ k > n
                        /\ \A j \in At("RESUMED") : k < j)
    /\ [][\A c \in Conns :
            LET sid == rs[c].sid
                fr == Replayed(c)'
            IN (/\ pc[c] # "idle" /\ pc'[c] = "idle"
                /\ rs[c].stage \in {"replay", "replayed"}
                /\ session_id[c] = 0
                /\ ws'[c] = "open"
                /\ \E i \in 1 .. Len(sess[sid].events) :
                      /\ sess[sid].events[i].t = "PRESENCE_UPDATE"
                      /\ sess[sid].events[i].s > rs[c].seq
                      /\ sess[sid].events[i].s <= rs[c].sent)
               => \E k, j \in 1 .. Len(frames'[c]) :
                     /\ k < j
                     /\ frames'[c][k].t = "PRESENCES_REPLACE"
                     /\ frames'[c][j].t = "RESUMED"]_vars

\* C40: when RESUMED is transmitted on a connection of a non-atomic client
\* the user is a viewer of the guild; and when the user of a registered
\* session of a non-atomic client has no connection left (whatever was
\* dispatched and unmarked meanwhile), the handling of a RESUME received on a
\* new connection with that session, the token it was created with and a seq
\* inside the window ends with the connection identified and the user a
\* viewer of the guild.
C40_ResumeRestoresViewer ==
    /\ [][\A c \in Conns :
            (/\ pc[c] = "fo_send" /\ fo[c].cur = c /\ fo[c].evt.t = "RESUMED"
             /\ frames'[c] = Append(frames[c], Payload(fo[c]))
             /\ ~is_atomic(c))
            => sess[cstate[c]].user \in viewers']_vars
    /\ [][\A c \in Conns :
            LET sid == rs[c].sid IN
            (/\ pc[c] # "idle" /\ pc'[c] = "idle"
             /\ rs[c].stage # "none"
             /\ session_id[c] = 0
             /\ sid \in registry
             /\ sid \notin atomic_markers
             /\ Detached(sid)
             /\ rs[c].tok = TokenOf(sess[sid].user)
             /\ rs[c].seq <= sess[sid].sent_seq
             /\ sess[sid].sent_seq - rs[c].seq < RESUME_MAX_EVENTS
             /\ ws'[c] = "open")
            => /\ identified'[c]
               /\ sess[sid].user \in viewers']_vars
====
